---- MODULE Spec2Model ----
(***************************************************************************)
(* Session supervision of the WhatsApp gateway.                            *)
(*                                                                         *)
(* The server (src/index.js) loads one of two session managers, chosen by  *)
(* USE_HYBRID_PROVIDERS:                                                   *)
(*   - session-manager.js        (src/unnamed/part_001), one Baileys       *)
(*     socket per session object, reconnect driven by the manager;         *)
(*   - hybrid-session-manager.js (src/unnamed/part_000), provider          *)
(*     instances (src/unnamed/part_002, src/src/providers) that reconnect  *)
(*     on their own and report to the manager through callbacks.           *)
(*                                                                         *)
(* Every `await` of the source splits a handler into steps; the steps of   *)
(* different handlers interleave as the Node.js event loop lets them.      *)
(* Objects (sessions, timers, intervals, provider instances) live in       *)
(* bounded heaps; a slot is reused once nothing refers to it any more.     *)
(***************************************************************************)
EXTENDS Integers, Sequences, FiniteSets, TLC

\* ---------------------------------------------------------------- bounds
MaxSessions == 2      \* session objects alive at the same time
MaxTimers   == 2      \* reconnect timers alive at the same time
MaxPollers  == 2      \* polling closures alive at the same time
MaxTicks    == 2      \* pollPendingMessages calls in flight (per closure, per tenant)
MaxProviders == 2     \* provider instances alive at the same time

\* ------------------------------------------------------------- constants
Tenants   == {"s1"}
Callbacks == {"cb1"}
Null      == "null"
QR        == "qr"     \* some non-null QR payload

maxReconnectAttempts == 8

SessionIds == 1..MaxSessions
TimerIds   == 1..MaxTimers
PollerIds  == 1..MaxPollers
ProvIds    == 1..MaxProviders

CloseReasons == {"loggedOut", "badSession", "other"}

Min(S) == CHOOSE x \in S : \A y \in S : x <= y

VARIABLES
  useHybridProviders,  \* which manager index.js loaded
  sessions,            \* Map salonId -> session object (0: no entry)
  sess,                \* the session objects
  sock,                \* session-manager.js: socket made for a session object
  creating,            \* session-manager.js: createSession calls awaiting the auth state
  rendering,           \* session-manager.js: QRCode.toDataURL calls in flight
  disconnecting,       \* disconnectSession calls awaiting logout()
  statusCallbacks,     \* Map salonId -> array of callbacks
  emitted,             \* the status events notified by the last step
  pollingIntervals,    \* Map salonId -> interval id (0: no entry)
  intervals,           \* armed setInterval timers
  isPolling,           \* the isPolling flag of each polling closure
  ticks,               \* pollPendingMessages calls in flight, per closure
  reconnectTimers,     \* Map salonId -> timer id (0: no entry)
  timers,              \* armed reconnect setTimeout timers
  drains,              \* setTimeout(() => processQueue(), 2000) armed by the last step
  prov,                \* hybrid manager: the provider instances
  providerPriority,    \* hybrid manager: config.providerPriority
  polls,               \* hybrid manager: pollPendingMessages calls in flight
  lastOp,              \* the entry point the last step belongs to
  backoffAttempt,      \* calculateBackoffDelay: its argument
  backoffRandom,       \* calculateBackoffDelay: what Math.random() returns
  backoffDelay,        \* calculateBackoffDelay: its result (0: not called yet)
  backoffBy,           \* which calculateBackoffDelay was called
  configPriority,      \* hybrid manager: session.config.providerPriority
  fallback,            \* hybrid manager: session.config.fallback
  health,              \* healthMetrics of each provider instance
  send,                \* the sendMessage call: its locals and where it stands
  messageQueue,        \* queue.js: the inbound delivery queue
  queueFile,           \* queue.js: the content of message_queue.json
  saveInProgress,      \* queue.js: a writeFile is in flight
  pendingSave,         \* queue.js: a save was requested during the write
  writing,             \* queue.js: what the writeFile in flight writes
  immediates,          \* queue.js: setImmediate(() => saveQueue()) pending
  forwards,            \* forwardToWebhook calls of incoming messages awaiting the POST
  drainPass,           \* the processQueue passes: snapshot and position
  now,                 \* Date.now()
  delivered,           \* the messages the providers have delivered so far
  restarts,            \* the times the process was started again
  isShuttingDown,      \* index.js: the isShuttingDown flag
  exitCode,            \* the argument of process.exit ("none": running)
  errorLog,            \* what the global error handlers have logged
  queueAtSignal,       \* the queue when the shutdown began
  upsert,              \* the messages.upsert handlers: what was emitted, what
                       \* was forwarded, where each handler stands
  tick,                \* one pollPendingMessages call: its messages, where it
                       \* stands, the sends it made and the acks it posted
  notified,            \* the last notifyStatusChange call: the callbacks it
                       \* found, those it invoked, the errors it logged
  source,              \* the last inbound message handed to forwardToWebhook:
                       \* its provider and the session's active provider
  payload,             \* the last normalized inbound message and the webhook
                       \* payload built from it
  decision,            \* the last shouldTriggerFallback call: its arguments
                       \* and what it returned
  handles,             \* index.js: the unsubscribe function each WebSocket
                       \* client holds, and whether a call of it raised
  outbox               \* the backend's pending outbound messages, how often
                       \* each was sent, and the poller ticks in flight

pollVars   == <<pollingIntervals, intervals, isPolling, ticks>>
timerVars  == <<reconnectTimers, timers>>
heapVars   == <<sessions, sess, sock, creating, rendering>>
hybridVars == <<prov, providerPriority, polls>>
legacyVars == <<sock, creating, rendering, isPolling, reconnectTimers>>
backoffVars == <<backoffAttempt, backoffRandom, backoffDelay, backoffBy>>

\* The state of the parts of the server that the session supervision does
\* not touch.
sendVars == <<configPriority, fallback, health, send>>
queueVars == <<messageQueue, queueFile, saveInProgress, pendingSave, writing,
               immediates, forwards, drainPass, now, delivered, restarts>>
processVars == <<isShuttingDown, exitCode, errorLog, queueAtSignal>>
moreVars == <<upsert, tick, notified, source, payload, decision, handles, outbox>>
laterVars == <<processVars, moreVars>>
auxVars == <<backoffVars, sendVars, queueVars, laterVars>>

vars == <<useHybridProviders, sessions, sess, sock, creating, rendering,
          disconnecting, statusCallbacks, emitted, pollingIntervals,
          intervals, isPolling, ticks, reconnectTimers, timers, drains,
          prov, providerPriority, polls, lastOp, auxVars>>

\* ------------------------------------------------------- session objects
\* The record is the union of the fields of the two managers' session
\* objects; a manager leaves the other manager's fields at their default.
NoProviders == [p \in {"cloud_api", "baileys"} |-> 0]

EmptySession ==
  [salonId |-> Null, status |-> "none", activeProvider |-> Null,
   providers |-> NoProviders, qrCode |-> Null, qrCodeBase64 |-> Null,
   reconnectAttempts |-> 0]

LegacySession(t) ==
  [salonId |-> t, status |-> "initializing", activeProvider |-> Null,
   providers |-> NoProviders, qrCode |-> Null, qrCodeBase64 |-> Null,
   reconnectAttempts |-> 0]

HybridSession(t) ==
  [salonId |-> t, status |-> "initializing", activeProvider |-> Null,
   providers |-> NoProviders, qrCode |-> Null, qrCodeBase64 |-> Null,
   reconnectAttempts |-> 0]

\* ----------------------------------------------------- provider objects
providerMaxReconnectAttempts == 5

\* ProviderFactory.getProviderPriority(config) with the Cloud API
\* credentials configured (the default order) and without them.
DefaultPriority == <<"cloud_api", "baileys">>
BaileysOnly     == <<"baileys">>

\* BaseProvider / BaileysProvider / CloudApiProvider constructor.  The
\* connect() call that createSession awaits is pending while `waiter`, the
\* awaiting session object, is set; `timeout` is its armed 60 s timer;
\* `hasSocket` is this.socket !== null and `socket` the state of the last
\* socket the instance made (null, fresh, open, closed = handlers gone);
\* connectionResolver / connectionRejecter are "first" while they settle
\* that promise; null, or a function that settles a promise nobody awaits
\* (a later connect(), a promise already settled), is Null.
EmptyProv ==
  [type |-> Null, salonId |-> Null, status |-> "disconnected",
   socket |-> Null, hasSocket |-> FALSE, qrCodeBase64 |-> Null,
   reconnectAttempts |-> 0, reconnectTimer |-> 0, connecting |-> "none",
   rendering |-> FALSE, connectionResolver |-> Null,
   connectionRejecter |-> Null, timeout |-> FALSE,
   waiter |-> 0]

NewProvider(type, t) == [EmptyProv EXCEPT !.type = type, !.salonId = t]

\* --------------------------------------------------------- status events
NoCallbacks == [present |-> FALSE, list |-> <<>>]

\* notifyStatusChange: the callbacks of the tenant's array (or of [] when
\* the tenant has no array) are invoked in order with the event.
notifyStatusChange(cbs, t, status) ==
  [salonId |-> t, status |-> status, to |-> cbs[t].list]

Subscribers(cbs, t) == {cbs[t].list[k] : k \in 1..Len(cbs[t].list)}

\* ------------------------------------------------------------ the poller
IdsOf(S) == {x.id : x \in S}

\* stopPolling: clearInterval of the registered interval, entry deleted.
stopPolling(t) ==
  /\ intervals' = {x \in intervals : x.id # pollingIntervals[t]}
  /\ pollingIntervals' = [pollingIntervals EXCEPT ![t] = 0]
  /\ UNCHANGED <<isPolling, ticks>>

FreePollers(ints) ==
  {j \in PollerIds : j \notin IdsOf(ints) /\ ticks[j] = 0}

\* startPolling: stopPolling, then a new closure (isPolling = false) on a
\* new interval, registered under the tenant.
startPolling(t) ==
  LET ints == {x \in intervals : x.id # pollingIntervals[t]} IN
  /\ FreePollers(ints) # {}
  /\ LET j == Min(FreePollers(ints)) IN
       /\ intervals' = ints \cup {[id |-> j, salonId |-> t]}
       /\ pollingIntervals' = [pollingIntervals EXCEPT ![t] = j]
       /\ isPolling' = [isPolling EXCEPT ![j] = FALSE]
       /\ UNCHANGED ticks

\* ------------------------------------------------------------------ init
InitWith(hybrid, priority) ==
  /\ useHybridProviders = hybrid
  /\ sessions = [t \in Tenants |-> 0]
  /\ sess = [i \in SessionIds |-> EmptySession]
  /\ sock = [i \in SessionIds |-> "none"]
  /\ creating = {}
  /\ rendering = {}
  /\ disconnecting = {}
  /\ statusCallbacks = [t \in Tenants |-> NoCallbacks]
  /\ emitted = <<>>
  /\ pollingIntervals = [t \in Tenants |-> 0]
  /\ intervals = {}
  /\ isPolling = [j \in PollerIds |-> FALSE]
  /\ ticks = [j \in PollerIds |-> 0]
  /\ reconnectTimers = [t \in Tenants |-> 0]
  /\ timers = {}
  /\ drains = 0
  /\ prov = [p \in ProvIds |-> EmptyProv]
  /\ providerPriority = priority
  /\ polls = [t \in Tenants |-> 0]
  /\ lastOp = "start"

\* No reconnect delay has been computed.
BackoffIdle ==
  /\ backoffAttempt = 0
  /\ backoffRandom = 0
  /\ backoffDelay = 0
  /\ backoffBy = "none"

\* An error object as the providers normalize it (normalizeError); `code`
\* is the string code, or "number" with the number in codeNum.
NoError ==
  [code |-> "none", codeNum |-> 0, message |-> "", isRateLimit |-> FALSE,
   isTemplateError |-> FALSE, isInvalidPhone |-> FALSE, isAuthError |-> FALSE,
   retryable |-> FALSE]

\* healthMetrics as the BaseProvider constructor sets them.
NoHealth == [successCount |-> 0, failureCount |-> 0]

\* No sendMessage call has been made.
NoSend ==
  [pc |-> "idle", sid |-> 0, template |-> FALSE, order |-> <<>>, k |-> 0, retry |-> 0,
   attempts |-> 0, lastError |-> NoError, log |-> <<>>, errors |-> <<>>,
   healthAtCall |-> <<>>,
   result |-> [kind |-> "none", provider |-> Null, error |-> NoError]]

SendIdle ==
  /\ configPriority = <<>>
  /\ fallback = [enabled |-> TRUE, maxRetries |-> 0]
  /\ health = [p \in ProvIds |-> NoHealth]
  /\ send = NoSend

MaxDeliveries == 2    \* messages the providers deliver (with repetitions)
MaxDrains     == 1    \* processQueue passes running at the same time
MaxNow        == 1    \* the clock runs from 0 to MaxNow * TimeStep
MaxRestarts   == 1    \* the times the process dies and is started again
MaxPasses     == 2    \* processQueue passes two timers of one connect start

MessageIds == {"m1", "m2"}
DrainIds   == 1..MaxDrains
PassIds    == 1..MaxPasses

\* No processQueue pass in a slot.
NoPass == [pc |-> "none", snapshot |-> <<>>, k |-> 0]

\* The queue module right after a first start without a queue file.
QueueIdle ==
  /\ messageQueue = <<>>
  /\ queueFile = <<>>
  /\ saveInProgress = FALSE
  /\ pendingSave = FALSE
  /\ writing = <<>>
  /\ immediates = 0
  /\ forwards = [id \in MessageIds |-> 0]
  /\ drainPass = [d \in PassIds |-> NoPass]
  /\ now = 0
  /\ delivered = 0
  /\ restarts = 0

\* index.js right after the start.
ProcessIdle ==
  /\ isShuttingDown = FALSE
  /\ exitCode = "none"
  /\ errorLog = <<>>
  /\ queueAtSignal = <<>>

MaxEvents == 2        \* messages.upsert events a provider emits
MaxBatch  == 2        \* messages of one messages.upsert event
EventIds == 1..MaxEvents

\* No messages.upsert handler in a slot.
NoHandler == [msgs |-> <<>>, k |-> 0, pc |-> "none"]

\* No message received yet.
UpsertIdle ==
  upsert = [emitted |-> <<>>, forwarded |-> <<>>,
            handlers |-> [e \in EventIds |-> NoHandler]]

\* pollPendingMessages not running.
NoTick == [pc |-> "none", msgs |-> <<>>, k |-> 0, sends |-> <<>>, acks |-> <<>>]

\* notifyStatusChange not called yet.
NoNotification ==
  [salonId |-> Null, to |-> <<>>, invoked |-> <<>>, logged |-> <<>>,
   unsubscribed |-> {}]

\* No inbound message forwarded yet.
NoSource == [provider |-> Null, active |-> Null, count |-> 0]

\* No inbound message normalized yet.
NoPayload ==
  [provider |-> Null, jid |-> Null,
   message |-> [resolvedPhone |-> Null, isLid |-> FALSE, lidId |-> Null],
   phone |-> Null, isLid |-> FALSE, lidId |-> Null]

\* fallback.triggers with every flag off, and with the defaults of loadConfig.
NoTriggers ==
  [onTimeout |-> FALSE, onRateLimit |-> FALSE, onTemplateError |-> FALSE,
   onServerError |-> FALSE]

\* shouldTriggerFallback has not been called yet.
NoDecision ==
  [asked |-> FALSE, error |-> NoError, status |-> 0, enabled |-> FALSE,
   triggers |-> NoTriggers, result |-> FALSE]

MaxMessages == 2      \* messages the backend returns to one tick
MaxSends    == 2      \* times the model lets one message be sent

\* A pollPendingMessages call that is not running.
NoOTick == [pc |-> "none", msgs |-> <<>>, k |-> 0, status |-> Null]

\* The backend lists every message as pending, none was sent, no tick runs.
NoOutbox ==
  [pending |-> 1..MaxMessages, dispatched |-> [id \in 1..MaxMessages |-> 0],
   ticks |-> [j \in 1..MaxTicks |-> NoOTick]]

\* index.js: no WebSocket client has subscribed.
NoHandle == [salonId |-> Null, raised |-> FALSE]

LaterIdle ==
  /\ ProcessIdle
  /\ UpsertIdle
  /\ tick = NoTick
  /\ notified = NoNotification
  /\ source = NoSource
  /\ payload = NoPayload
  /\ decision = NoDecision
  /\ handles = [c \in {"cb1", "cb2", "cb3"} |-> NoHandle]
  /\ outbox = NoOutbox

AuxIdle == BackoffIdle /\ SendIdle /\ QueueIdle /\ LaterIdle

\* index.js loads one manager or the other (USE_HYBRID_PROVIDERS).
Init ==
  /\ \/ InitWith(FALSE, <<>>)
     \/ InitWith(TRUE, DefaultPriority)
  /\ AuxIdle

\* =========================================================================
\* session-manager.js (src/unnamed/part_001)
\* =========================================================================

\* The heap after a step: a session object and its socket are reclaimed
\* once no Map entry, live socket or continuation reaches them.
Heap(newSessions, newSess, newSock, newCreating, newRendering) ==
  LET reached(i) == \/ \E t \in Tenants : newSessions[t] = i
                    \/ newSock[i] \in {"fresh", "open"}
                    \/ i \in newCreating
                    \/ i \in newRendering
  IN
  /\ sessions' = newSessions
  /\ creating' = newCreating
  /\ rendering' = newRendering
  /\ sess' = [i \in SessionIds |-> IF reached(i) THEN newSess[i] ELSE EmptySession]
  /\ sock' = [i \in SessionIds |-> IF reached(i) THEN newSock[i] ELSE "none"]

\* Slots createSession(t) can take for its new object: the tenant's entry is
\* about to be overwritten, so its old object counts only if something else
\* reaches it.
FreeSessions(t) ==
  {i \in SessionIds : /\ sock[i] \notin {"fresh", "open"}
                      /\ i \notin creating
                      /\ i \notin rendering
                      /\ \A u \in Tenants \ {t} : sessions[u] # i}

\* The early return of createSession with the status compared to the
\* socket's word for it (`open`) instead of the session's (`connected`).
AlreadyOpen(t) ==
  sessions[t] # 0 /\ sess[sessions[t]].status = "open"

\* createSession, `existing && existing.status === 'connected'`: the early
\* return on a connected session.
AlreadyConnected(t) ==
  sessions[t] # 0 /\ sess[sessions[t]].status = "connected"

\* createSession up to its first await: a fresh session object replaces the
\* tenant's entry and `initializing` is notified.
L_createSession(t) ==
  IF AlreadyConnected(t)
  THEN /\ UNCHANGED heapVars
       /\ emitted' = <<>>
  ELSE /\ FreeSessions(t) # {}
       /\ LET i == Min(FreeSessions(t)) IN
            Heap([sessions EXCEPT ![t] = i],
                 [sess EXCEPT ![i] = LegacySession(t)],
                 [sock EXCEPT ![i] = "none"],
                 creating \cup {i}, rendering)
       /\ emitted' = <<notifyStatusChange(statusCallbacks, t, "initializing")>>

\* POST /session/:salonId/connect, ws `connect`, autoReconnect.
L_CreateSession(t) ==
  /\ ~useHybridProviders
  /\ L_createSession(t)
  /\ lastOp' = "createSession"
  /\ drains' = 0
  /\ UNCHANGED <<useHybridProviders, auxVars, hybridVars, disconnecting, statusCallbacks,
                 pollVars, timerVars>>

\* createSession after useMultiFileAuthState / fetchLatestBaileysVersion:
\* the socket is made and its handlers attached, or the catch block runs.
L_SocketCreated(i, ok) ==
  /\ ~useHybridProviders
  /\ i \in creating
  /\ IF ok
     THEN /\ Heap(sessions, sess, [sock EXCEPT ![i] = "fresh"],
                  creating \ {i}, rendering)
          /\ emitted' = <<>>
     ELSE /\ Heap(sessions, [sess EXCEPT ![i].status = "error"], sock,
                  creating \ {i}, rendering)
          /\ emitted' = <<notifyStatusChange(statusCallbacks, sess[i].salonId,
                                             "error")>>
  /\ lastOp' = "internal"
  /\ drains' = 0
  /\ UNCHANGED <<useHybridProviders, auxVars, hybridVars, disconnecting, statusCallbacks, pollVars,
                 timerVars>>

\* connection.update with a qr, up to `await QRCode.toDataURL`.
L_Qr(i) ==
  /\ ~useHybridProviders
  /\ sock[i] = "fresh"
  /\ Heap(sessions,
          [sess EXCEPT ![i].status = "qr_ready", ![i].qrCode = QR],
          sock, creating, rendering \cup {i})
  /\ emitted' = <<>>
  /\ lastOp' = "internal"
  /\ drains' = 0
  /\ UNCHANGED <<useHybridProviders, auxVars, hybridVars, disconnecting, statusCallbacks, pollVars,
                 timerVars>>

\* connection.update with a qr, after toDataURL resolved (ok) or threw.
L_QrRendered(i, ok) ==
  /\ ~useHybridProviders
  /\ i \in rendering
  /\ Heap(sessions,
          IF ok THEN [sess EXCEPT ![i].qrCodeBase64 = QR] ELSE sess,
          sock, creating, rendering \ {i})
  /\ emitted' = <<notifyStatusChange(statusCallbacks, sess[i].salonId,
                                     "qr_ready")>>
  /\ lastOp' = "internal"
  /\ drains' = 0
  /\ UNCHANGED <<useHybridProviders, auxVars, hybridVars, disconnecting, statusCallbacks, pollVars,
                 timerVars>>

FreeTimers(tms) == {k \in TimerIds : k \notin IdsOf(tms)}

\* clearTimeout(existingTimer) of the close branch, line 527-530.
clearExistingTimer(t) == {x \in timers : x.id # reconnectTimers[t]}

\* connection.update with connection === 'close'.
L_Close(i, reason) ==
  LET t  == sess[i].salonId
      s0 == [sess[i] EXCEPT !.qrCode = Null, !.qrCodeBase64 = Null]
      a0 == IF reason = "badSession" THEN 0 ELSE s0.reconnectAttempts
      s1 == IF reason = "loggedOut"
              THEN [s0 EXCEPT !.status = "logged_out"]
            ELSE IF a0 < maxReconnectAttempts
              THEN [s0 EXCEPT !.reconnectAttempts = a0 + 1,
                              !.status = "reconnecting"]
            ELSE [s0 EXCEPT !.reconnectAttempts = a0, !.status = "failed"]
  IN
  /\ ~useHybridProviders
  /\ sock[i] \in {"fresh", "open"}
  /\ stopPolling(t)
  /\ IF s1.status = "reconnecting"
     THEN /\ FreeTimers(clearExistingTimer(t)) # {}
          /\ LET k == Min(FreeTimers(clearExistingTimer(t))) IN
               /\ timers' = clearExistingTimer(t) \cup
                              {[id |-> k, salonId |-> t, prov |-> 0]}
               /\ reconnectTimers' = [reconnectTimers EXCEPT ![t] = k]
     ELSE UNCHANGED timerVars
  /\ Heap(sessions, [sess EXCEPT ![i] = s1], [sock EXCEPT ![i] = "closed"],
          creating, rendering)
  /\ emitted' = <<notifyStatusChange(statusCallbacks, t, s1.status)>>
  /\ lastOp' = "internal"
  /\ drains' = 0
  /\ UNCHANGED <<useHybridProviders, auxVars, hybridVars, disconnecting, statusCallbacks>>

\* connection.update with connection === 'open'.
L_Open(i) ==
  LET t == sess[i].salonId IN
  /\ ~useHybridProviders
  /\ sock[i] = "fresh"
  /\ Heap(sessions,
          [sess EXCEPT ![i].status = "connected", ![i].qrCode = Null,
                       ![i].qrCodeBase64 = Null, ![i].reconnectAttempts = 0],
          [sock EXCEPT ![i] = "open"], creating, rendering)
  /\ emitted' = <<notifyStatusChange(statusCallbacks, t, "connected")>>
  /\ startPolling(t)
  /\ drains' = 1
  /\ lastOp' = "internal"
  /\ UNCHANGED <<useHybridProviders, auxVars, hybridVars, disconnecting, statusCallbacks, timerVars>>

\* The reconnect timer set by the close branch fires.
L_ReconnectTimer(x) ==
  /\ ~useHybridProviders
  /\ x \in timers
  /\ x.prov = 0
  /\ timers' = timers \ {x}
  /\ reconnectTimers' = [reconnectTimers EXCEPT ![x.salonId] = 0]
  /\ L_createSession(x.salonId)
  /\ lastOp' = "internal"
  /\ drains' = 0
  /\ UNCHANGED <<useHybridProviders, auxVars, hybridVars, disconnecting, statusCallbacks, pollVars>>

\* One firing of the interval of startPolling: the `poll` closure up to the
\* first await inside pollPendingMessages.
L_PollTick(x) ==
  /\ ~useHybridProviders
  /\ x \in intervals
  /\ IF /\ ~isPolling[x.id]
        /\ sessions[x.salonId] # 0
        /\ sess[sessions[x.salonId]].status = "connected"
     THEN /\ ticks[x.id] < MaxTicks
          /\ isPolling' = [isPolling EXCEPT ![x.id] = TRUE]
          /\ ticks' = [ticks EXCEPT ![x.id] = @ + 1]
     ELSE UNCHANGED <<isPolling, ticks>>
  /\ emitted' = <<>>
  /\ lastOp' = "internal"
  /\ drains' = 0
  /\ UNCHANGED <<useHybridProviders, auxVars, hybridVars, heapVars, disconnecting, statusCallbacks,
                 pollingIntervals, intervals, timerVars>>

\* pollPendingMessages returns; the finally block of `poll` runs.
L_PollDone(j) ==
  /\ ~useHybridProviders
  /\ ticks[j] > 0
  /\ ticks' = [ticks EXCEPT ![j] = @ - 1]
  /\ isPolling' = [isPolling EXCEPT ![j] = FALSE]
  /\ emitted' = <<>>
  /\ lastOp' = "internal"
  /\ drains' = 0
  /\ UNCHANGED <<useHybridProviders, auxVars, hybridVars, heapVars, disconnecting, statusCallbacks,
                 pollingIntervals, intervals, timerVars>>

\* disconnectSession up to `await session.socket.logout()`; without a
\* socket nothing is awaited and the call runs to its end.
L_Disconnect(t) ==
  LET i == sessions[t] IN
  /\ ~useHybridProviders
  /\ i # 0
  /\ \A d \in disconnecting : d.salonId # t
  /\ stopPolling(t)
  /\ timers' = {x \in timers : x.id # reconnectTimers[t]}
  /\ reconnectTimers' = [reconnectTimers EXCEPT ![t] = 0]
  /\ IF sock[i] = "none"
     THEN /\ Heap([sessions EXCEPT ![t] = 0], sess, sock, creating, rendering)
          /\ statusCallbacks' = [statusCallbacks EXCEPT ![t] = NoCallbacks]
          /\ emitted' = <<notifyStatusChange(statusCallbacks', t,
                                             "disconnected")>>
          /\ lastOp' = "disconnectSession.return"
          /\ UNCHANGED disconnecting
     ELSE /\ Heap(sessions, sess, [sock EXCEPT ![i] = "closed"], creating,
                  rendering)
          /\ disconnecting' = disconnecting \cup
               {[salonId |-> t, sid |-> i, prov |-> 0,
                 subs |-> Subscribers(statusCallbacks, t)]}
          /\ emitted' = <<>>
          /\ lastOp' = "disconnectSession"
          /\ UNCHANGED statusCallbacks
  /\ drains' = 0
  /\ UNCHANGED <<useHybridProviders, auxVars, hybridVars>>

\* disconnectSession after logout(): the entry and the callbacks are
\* deleted, then `disconnected` is notified.
L_DisconnectDone(d) ==
  /\ ~useHybridProviders
  /\ d \in disconnecting
  /\ disconnecting' = disconnecting \ {d}
  /\ Heap([sessions EXCEPT ![d.salonId] = 0], sess, sock, creating, rendering)
  /\ statusCallbacks' = [statusCallbacks EXCEPT ![d.salonId] = NoCallbacks]
  /\ emitted' = <<notifyStatusChange(statusCallbacks', d.salonId,
                                     "disconnected")>>
  /\ lastOp' = "disconnectSession.return"
  /\ drains' = 0
  /\ UNCHANGED <<useHybridProviders, auxVars, hybridVars, pollVars, timerVars>>

\* =========================================================================
\* hybrid-session-manager.js (src/unnamed/part_000) with its providers
\* (src/unnamed/part_002, src/src/providers/cloud-api-provider.js)
\* =========================================================================

\* The manager and provider state one step works on.  A step threads it
\* through the synchronous calls it makes (provider callback -> manager
\* handler -> notifyStatusChange ...); `ok` turns false when a bound of the
\* model would be exceeded.
H_state ==
  [sessions |-> sessions, sess |-> sess, prov |-> prov,
   pollingIntervals |-> pollingIntervals, intervals |-> intervals,
   drains |-> 0, timers |-> timers, emitted |-> <<>>, ok |-> TRUE]

H_notify(m, t, status) ==
  [m EXCEPT !.emitted = Append(@, notifyStatusChange(statusCallbacks, t, status))]

\* stopPolling of hybrid-session-manager.js.
H_stopPolling(m, t) ==
  [m EXCEPT !.intervals = {x \in @ : x.id # m.pollingIntervals[t]},
            !.pollingIntervals[t] = 0]

\* startPolling of hybrid-session-manager.js: no isPolling flag.
H_startPolling(m, t) ==
  LET m1   == H_stopPolling(m, t)
      free == FreePollers(m1.intervals)
  IN IF free = {} THEN [m1 EXCEPT !.ok = FALSE]
     ELSE [m1 EXCEPT !.intervals = @ \cup {[id |-> Min(free), salonId |-> t]},
                     !.pollingIntervals[t] = Min(free)]

\* setTimeout(() => processQueue(), 2000)
H_scheduleDrain(m) ==
  [m EXCEPT !.drains = @ + 1]

\* handleProviderStatusChange(salonId, providerType, data)
handleProviderStatusChange(m, t, type, status) ==
  LET i == m.sessions[t] IN
  IF i = 0 THEN m
  ELSE LET m1 == IF status = "connected" /\ m.sess[i].activeProvider = Null
                 THEN H_scheduleDrain(H_startPolling(
                        [m EXCEPT !.sess[i].activeProvider = type,
                                  !.sess[i].status = "connected",
                                  !.sess[i].qrCodeBase64 = Null], t))
                 ELSE m
       IN H_notify(m1, t, status)

\* handleQrCode(salonId, qrCode)
handleQrCode(m, t, qr) ==
  LET i == m.sessions[t] IN
  IF i = 0 THEN m
  ELSE H_notify([m EXCEPT !.sess[i].qrCodeBase64 = qr,
                          !.sess[i].status = "qr_ready"], t, "qr_ready")

\* provider.setStatus(status) followed by this.onStatusChange({status}).
H_setStatus(m, p, status) ==
  handleProviderStatusChange([m EXCEPT !.prov[p].status = status],
                             m.prov[p].salonId, m.prov[p].type, status)

\* connect() of either provider up to its first await.
H_connectBegin(m, p, mode) ==
  H_setStatus([m EXCEPT !.prov[p].connecting = mode], p, "connecting")

\* Reachability: a provider instance is alive while something can still
\* call into it, a session object while the Map, a createSession waiting on
\* a live provider or a disconnectSession in progress holds it.
H_gc(m, disc, held) ==
  LET live(p) ==
        LET r == m.prov[p] IN
        /\ r.type # Null
        /\ \/ r.socket \in {"fresh", "open"}
           \/ r.connecting # "none"
           \/ r.rendering
           \/ r.timeout
           \/ r.reconnectTimer # 0
           \/ \E d \in disc : d.prov = p
      awaited(p) ==   \* the promise createSession awaits can still settle
        LET r == m.prov[p] IN
        \/ r.connecting = "first"
        \/ r.timeout
        \/ /\ live(p)
           /\ "first" \in {r.connectionResolver, r.connectionRejecter}
      sreach(i) ==
        \/ \E t \in Tenants : m.sessions[t] = i
        \/ \E p \in ProvIds : m.prov[p].waiter = i /\ awaited(p)
        \/ \E d \in disc : d.sid = i
        \/ i \in held
      preach(p) ==
        \/ live(p)
        \/ /\ m.prov[p].type # Null
           /\ \E i \in SessionIds :
                sreach(i) /\ m.sess[i].providers[m.prov[p].type] = p
  IN [m EXCEPT
        !.sess = [i \in SessionIds |->
                    IF sreach(i) THEN m.sess[i] ELSE EmptySession],
        !.prov = [p \in ProvIds |->
                    IF ~preach(p) THEN EmptyProv
                    ELSE IF m.prov[p].waiter = 0 \/ ~awaited(p)
                      THEN [m.prov[p] EXCEPT !.waiter = 0,
                                             !.connectionResolver = Null,
                                             !.connectionRejecter = Null]
                    ELSE m.prov[p]]]

\* The body of the provider loop of createSession for priority index k:
\* ProviderFactory.create, session.providers.set, provider.connect() up to
\* its first await.  Past the end of the list createSession returns.
H_tryProvider(m, sid, k, disc) ==
  IF k > Len(providerPriority) THEN m
  ELSE LET g    == H_gc(m, disc, {sid})
           free == {p \in ProvIds : g.prov[p].type = Null}
           type == providerPriority[k]
           t    == g.sess[sid].salonId
       IN IF free = {} THEN [m EXCEPT !.ok = FALSE]
          ELSE LET p == Min(free) IN
               H_connectBegin(
                 [g EXCEPT !.prov[p] = [NewProvider(type, t) EXCEPT !.waiter = sid],
                           !.sess[sid].providers[type] = p],
                 p, "first")

IndexOf(seq, x) == CHOOSE k \in 1..Len(seq) : seq[k] = x

\* createSession resumes after `await provider.connect()` of provider p
\* settled with outcome "connected", "qr_ready" (payload qr) or "rejected".
H_resume(m, p, outcome, qr, disc) ==
  LET sid  == m.prov[p].waiter
      type == m.prov[p].type
      t    == m.prov[p].salonId
      m0   == [m EXCEPT !.prov[p].waiter = 0]
  IN
  IF sid = 0 THEN m
  ELSE IF outcome = "connected"
    THEN H_scheduleDrain(H_startPolling(
           H_notify([m0 EXCEPT !.sess[sid].activeProvider = type,
                               !.sess[sid].status = "connected"],
                    t, "connected"), t))
  ELSE IF outcome = "qr_ready"
    THEN [m0 EXCEPT !.sess[sid].status = "qr_ready",
                    !.sess[sid].qrCodeBase64 = qr]
  ELSE H_tryProvider(m0, sid, IndexOf(providerPriority, type) + 1, disc)

\* this.connectionResolver(result), then this.connectionResolver = null.
H_resolve(m, p, outcome, qr, disc) ==
  LET r  == m.prov[p]
      m1 == [m EXCEPT !.prov[p].connectionResolver = Null]
  IN IF r.connectionResolver = "first" /\ r.waiter # 0
     THEN H_resume([m1 EXCEPT !.prov[p].timeout = FALSE],
                   p, outcome, qr, disc)
     ELSE m1

\* this.connectionRejecter(error), then this.connectionRejecter = null.
H_reject(m, p, disc) ==
  LET r  == m.prov[p]
      m1 == [m EXCEPT !.prov[p].connectionRejecter = Null]
  IN IF r.connectionRejecter = "first" /\ r.waiter # 0
     THEN H_resume([m1 EXCEPT !.prov[p].timeout = FALSE],
                   p, "rejected", Null, disc)
     ELSE m1

\* A step of the hybrid manager ends: the state is written back.
H_Apply(m, disc) ==
  LET g == H_gc(m, disc, {}) IN
  /\ m.ok
  /\ sessions' = g.sessions
  /\ sess' = g.sess
  /\ prov' = g.prov
  /\ pollingIntervals' = g.pollingIntervals
  /\ intervals' = g.intervals
  /\ drains' = g.drains
  /\ timers' = g.timers
  /\ emitted' = g.emitted
  /\ disconnecting' = disc
  /\ UNCHANGED <<useHybridProviders, auxVars, providerPriority, polls, legacyVars,
                 ticks, statusCallbacks>>

\* createSession(salonId) up to the first await of the provider loop.
H_CreateSession(t) ==
  /\ useHybridProviders
  /\ lastOp' = "createSession"
  /\ IF AlreadyConnected(t)
     THEN H_Apply(H_state, disconnecting)
     ELSE LET g    == H_gc([H_state EXCEPT !.sessions[t] = 0], disconnecting, {})
              free == {i \in SessionIds : g.sess[i].salonId = Null}
          IN /\ free # {}
             /\ LET i == Min(free) IN
                  H_Apply(H_tryProvider(
                            H_notify([g EXCEPT !.sessions[t] = i,
                                               !.sess[i] = HybridSession(t)],
                                     t, "initializing"),
                            i, 1, disconnecting),
                          disconnecting)

\* CloudApiProvider.connect after `await this.api.get('/')`.
C_Connected(p, ok) ==
  /\ useHybridProviders
  /\ prov[p].type = "cloud_api"
  /\ prov[p].connecting # "none"
  /\ lastOp' = "internal"
  /\ LET m0 == [H_state EXCEPT !.prov[p].connecting = "none"] IN
     IF ok
     THEN H_Apply(H_resume(H_setStatus(m0, p, "connected"), p, "connected",
                           Null, disconnecting), disconnecting)
     ELSE H_Apply(H_resume(H_setStatus(m0, p, "error"), p, "rejected",
                           Null, disconnecting), disconnecting)

\* BaileysProvider.connect after useMultiFileAuthState and
\* fetchLatestBaileysVersion: the socket and the promise are made (ok), or
\* the catch block runs.
B_Connected(p, ok) ==
  LET mode == prov[p].connecting
      res  == IF mode = "first" THEN "first" ELSE Null
      m0   == [H_state EXCEPT !.prov[p].connecting = "none"]
  IN
  /\ useHybridProviders
  /\ prov[p].type = "baileys"
  /\ mode # "none"
  /\ lastOp' = "internal"
  /\ IF ok
     THEN LET m1 == [m0 EXCEPT !.prov[p].socket = "fresh",
                               !.prov[p].hasSocket = TRUE,
                               !.prov[p].connectionResolver = res,
                               !.prov[p].connectionRejecter = res,
                               !.prov[p].timeout =
                                  IF mode = "first" THEN TRUE ELSE @]
          IN IF prov[p].status = "qr_ready"
             THEN \* resolve({ success: true, status: 'qr_ready' })
                  IF mode = "first"
                  THEN H_Apply(H_resume([m1 EXCEPT !.prov[p].timeout = FALSE],
                                        p, "qr_ready", Null, disconnecting),
                               disconnecting)
                  ELSE H_Apply(m1, disconnecting)
             ELSE H_Apply(m1, disconnecting)
     ELSE LET m1 == H_setStatus(m0, p, "error") IN
          IF mode = "first"
          THEN H_Apply(H_resume(m1, p, "rejected", Null, disconnecting),
                       disconnecting)
          ELSE H_Apply(m1, disconnecting)

\* The 60 s timer of the promise createSession awaits.
B_ConnectTimeout(p) ==
  /\ useHybridProviders
  /\ prov[p].timeout
  /\ lastOp' = "internal"
  /\ LET m0 == [H_state EXCEPT !.prov[p].timeout = FALSE] IN
     IF prov[p].status \notin {"connected", "qr_ready"}
     THEN H_Apply(H_resume(m0, p, "rejected", Null, disconnecting),
                  disconnecting)
     ELSE H_Apply(m0, disconnecting)

\* handleConnectionUpdate with a qr, up to `await QRCode.toDataURL`.
B_Qr(p) ==
  /\ useHybridProviders
  /\ prov[p].socket = "fresh"
  /\ lastOp' = "internal"
  /\ H_Apply([H_state EXCEPT !.prov[p].status = "qr_ready",
                             !.prov[p].rendering = TRUE], disconnecting)

\* handleConnectionUpdate with a qr, after toDataURL resolved (ok) or threw.
B_QrRendered(p, ok) ==
  /\ useHybridProviders
  /\ prov[p].rendering
  /\ lastOp' = "internal"
  /\ LET b64 == IF ok THEN QR ELSE prov[p].qrCodeBase64
         t   == prov[p].salonId
         m0  == [H_state EXCEPT !.prov[p].rendering = FALSE,
                                !.prov[p].qrCodeBase64 = b64]
         m1  == handleQrCode(m0, t, b64)
         m2  == handleProviderStatusChange(m1, t, "baileys", "qr_ready")
     IN H_Apply(H_resolve(m2, p, "qr_ready", b64, disconnecting), disconnecting)

\* handleConnectionUpdate with connection === 'close'.
B_Close(p, reason) ==
  LET r  == prov[p]
      a0 == IF reason = "badSession" THEN 0 ELSE r.reconnectAttempts
      m0 == [H_state EXCEPT !.prov[p].socket = "closed",
                            !.prov[p].qrCodeBase64 = Null]
  IN
  /\ useHybridProviders
  /\ r.socket \in {"fresh", "open"}
  /\ lastOp' = "internal"
  /\ IF reason = "loggedOut"
     THEN H_Apply(H_reject(H_setStatus(m0, p, "logged_out"), p, disconnecting),
                  disconnecting)
     ELSE IF a0 < providerMaxReconnectAttempts
     THEN LET m1 == H_setStatus([m0 EXCEPT !.prov[p].reconnectAttempts = a0 + 1],
                                p, "reconnecting")
              tms == {x \in m1.timers : x.id # r.reconnectTimer}
          IN /\ FreeTimers(tms) # {}
             /\ LET k == Min(FreeTimers(tms)) IN
                H_Apply([m1 EXCEPT
                           !.timers = tms \cup {[id |-> k, salonId |-> r.salonId,
                                                 prov |-> p]},
                           !.prov[p].reconnectTimer = k], disconnecting)
     ELSE H_Apply(H_reject(H_setStatus(
                    [m0 EXCEPT !.prov[p].reconnectAttempts = a0], p, "failed"),
                    p, disconnecting), disconnecting)

\* handleConnectionUpdate with connection === 'open'.
B_Open(p) ==
  /\ useHybridProviders
  /\ prov[p].socket = "fresh"
  /\ lastOp' = "internal"
  /\ LET m0 == [H_state EXCEPT !.prov[p].socket = "open",
                                  !.prov[p].qrCodeBase64 = Null,
                               !.prov[p].reconnectAttempts = 0]
     IN IF prov[p].hasSocket
        THEN H_Apply(H_resolve(H_setStatus(m0, p, "connected"), p, "connected",
                               Null, disconnecting), disconnecting)
        ELSE \* this.socket.user throws on the null this.socket
             H_Apply([m0 EXCEPT !.prov[p].status = "connected"], disconnecting)

\* The provider's reconnect timer fires: this.connect() up to its first await.
B_ReconnectTimer(x) ==
  /\ useHybridProviders
  /\ x \in timers
  /\ x.prov # 0
  /\ prov[x.prov].connecting = "none"
  /\ lastOp' = "internal"
  /\ H_Apply(H_connectBegin(
               [H_state EXCEPT !.timers = @ \ {x},
                               !.prov[x.prov].reconnectTimer = 0],
               x.prov, "later"), disconnecting)

\* One firing of the interval of startPolling, up to the first await
\* inside pollPendingMessages.
H_PollTick(x) ==
  /\ useHybridProviders
  /\ x \in intervals
  /\ IF /\ sessions[x.salonId] # 0
        /\ sess[sessions[x.salonId]].status = "connected"
     THEN /\ polls[x.salonId] < MaxTicks
          /\ polls' = [polls EXCEPT ![x.salonId] = @ + 1]
     ELSE UNCHANGED polls
  /\ emitted' = <<>>
  /\ drains' = 0
  /\ lastOp' = "internal"
  /\ UNCHANGED <<useHybridProviders, auxVars, prov, providerPriority, heapVars,
                 disconnecting, statusCallbacks, pollVars, timerVars>>

\* pollPendingMessages returns.
H_PollDone(t) ==
  /\ useHybridProviders
  /\ polls[t] > 0
  /\ polls' = [polls EXCEPT ![t] = @ - 1]
  /\ emitted' = <<>>
  /\ drains' = 0
  /\ lastOp' = "internal"
  /\ UNCHANGED <<useHybridProviders, auxVars, prov, providerPriority, heapVars,
                 disconnecting, statusCallbacks, pollVars, timerVars>>

\* CloudApiProvider.disconnect
C_disconnect(m, p) == H_setStatus(m, p, "disconnected")

\* BaileysProvider.disconnect up to `await this.socket.logout()`:
\* the reconnect timer is cleared and the handlers are taken off the socket.
B_disconnectBegin(m, p) ==
  [m EXCEPT !.timers = {x \in @ : x.id # m.prov[p].reconnectTimer},
            !.prov[p].reconnectTimer = 0,
            !.prov[p].socket = IF m.prov[p].hasSocket THEN "closed" ELSE @]

\* BaileysProvider.disconnect after logout().
B_disconnectEnd(m, p) ==
  H_setStatus([m EXCEPT !.prov[p].socket =
                           IF @ \in {"fresh", "open"} THEN @ ELSE Null,
                        !.prov[p].hasSocket = FALSE,
                        !.prov[p].qrCodeBase64 = Null,
                        !.prov[p].connectionResolver = Null,
                        !.prov[p].connectionRejecter = Null,
                        !.prov[p].reconnectAttempts = 0],
              p, "disconnected")

\* The end of disconnectSession: sessions.delete, final notification.
H_disconnectFinish(m, t) ==
  H_notify([m EXCEPT !.sessions[t] = 0], t, "disconnected")

\* The providers of a session object in Map insertion order.
InstalledProviders(s) ==
  SelectSeq(providerPriority, LAMBDA type : s.providers[type] # 0)

\* `for (const [name, provider] of session.providers)` of disconnectSession
\* from position k on, until a disconnect() has to wait for logout().
RECURSIVE H_disconnectLoop(_, _, _, _)
H_disconnectLoop(m, sid, k, t) ==
  LET order == InstalledProviders(m.sess[sid]) IN
  IF k > Len(order) THEN [state |-> H_disconnectFinish(m, t), waitFor |-> 0]
  ELSE LET p == m.sess[sid].providers[order[k]] IN
       IF m.prov[p].type = "cloud_api"
       THEN H_disconnectLoop(C_disconnect(m, p), sid, k + 1, t)
       ELSE IF ~m.prov[p].hasSocket
       THEN H_disconnectLoop(B_disconnectEnd(B_disconnectBegin(m, p), p),
                             sid, k + 1, t)
       ELSE [state |-> B_disconnectBegin(m, p), waitFor |-> p]

\* disconnectSession(salonId) up to its first real wait.
H_Disconnect(t) ==
  LET sid == sessions[t]
      res == H_disconnectLoop(H_stopPolling(H_state, t), sid, 1, t)
  IN
  /\ useHybridProviders
  /\ sid # 0
  /\ \A d \in disconnecting : d.salonId # t
  /\ IF res.waitFor = 0
     THEN /\ lastOp' = "disconnectSession.return"
          /\ H_Apply(res.state, disconnecting)
     ELSE /\ lastOp' = "disconnectSession"
          /\ H_Apply(res.state,
                     disconnecting \cup
                       {[salonId |-> t, sid |-> sid, prov |-> res.waitFor,
                         subs |-> Subscribers(statusCallbacks, t)]})

\* disconnectSession after the Baileys logout(): the rest of the loop and
\* the end of the call.
H_DisconnectDone(d) ==
  LET order == InstalledProviders(sess[d.sid])
      k     == IndexOf(order, "baileys")
      res   == H_disconnectLoop(B_disconnectEnd(H_state, d.prov), d.sid,
                                k + 1, d.salonId)
  IN
  /\ useHybridProviders
  /\ d \in disconnecting
  /\ lastOp' = "disconnectSession.return"
  /\ H_Apply(res.state, disconnecting \ {d})

NextHybrid ==
  \/ \E t \in Tenants : H_CreateSession(t)
  \/ \E p \in ProvIds, ok \in BOOLEAN : C_Connected(p, ok)
  \/ \E p \in ProvIds, ok \in BOOLEAN : B_Connected(p, ok)
  \/ \E p \in ProvIds : B_ConnectTimeout(p)
  \/ \E p \in ProvIds : B_Qr(p)
  \/ \E p \in ProvIds, ok \in BOOLEAN : B_QrRendered(p, ok)
  \/ \E p \in ProvIds, r \in CloseReasons : B_Close(p, r)
  \/ \E p \in ProvIds : B_Open(p)
  \/ \E x \in timers : B_ReconnectTimer(x)
  \/ \E t \in Tenants : H_Disconnect(t)
  \/ \E d \in disconnecting : H_DisconnectDone(d)

\* =========================================================================
\* both managers
\* =========================================================================

\* onStatusChange(salonId, callback): ws `subscribe` in index.js.
OnStatusChange(c, t) ==
  /\ \A u \in Tenants : c \notin Subscribers(statusCallbacks, u)
  /\ statusCallbacks' = [statusCallbacks EXCEPT ![t] =
       [present |-> TRUE, list |-> Append(statusCallbacks[t].list, c)]]
  /\ emitted' = <<>>
  /\ lastOp' = "onStatusChange"
  /\ drains' = 0
  /\ UNCHANGED <<useHybridProviders, auxVars, hybridVars, heapVars, disconnecting, pollVars,
                 timerVars>>

NextLegacy ==
  \/ \E t \in Tenants : L_CreateSession(t)
  \/ \E i \in SessionIds, ok \in BOOLEAN : L_SocketCreated(i, ok)
  \/ \E i \in SessionIds : L_Qr(i)
  \/ \E i \in SessionIds, ok \in BOOLEAN : L_QrRendered(i, ok)
  \/ \E i \in SessionIds, r \in CloseReasons : L_Close(i, r)
  \/ \E i \in SessionIds : L_Open(i)
  \/ \E x \in timers : L_ReconnectTimer(x)
  \/ \E x \in intervals : L_PollTick(x)
  \/ \E j \in PollerIds : L_PollDone(j)
  \/ \E t \in Tenants : L_Disconnect(t)
  \/ \E d \in disconnecting : L_DisconnectDone(d)

\* The poller of the hybrid manager.  Its ticks read the session and
\* write nothing but `polls`, which nothing else reads.
NextPolling ==
  \/ \E x \in intervals : H_PollTick(x)
  \/ \E t \in Tenants : H_PollDone(t)

\* The two managers with their subscribers.
Next ==
  \/ NextLegacy
  \/ NextHybrid
  \/ \E c \in Callbacks, t \in Tenants : OnStatusChange(c, t)

Spec == Init /\ [][Next]_vars

\* The two managers with their pollers, nobody subscribed.
NextP ==
  \/ NextLegacy
  \/ NextHybrid
  \/ NextPolling

SpecPolling == Init /\ [][NextP]_vars

\* The hybrid manager without Cloud API credentials, in the runs where
\* sessions are only created (no QR pairing, no disconnectSession, nobody
\* subscribed): a session that was replaced leaves its Baileys provider
\* behind, so two instances serve the tenant.
InitReplace == InitWith(TRUE, BaileysOnly) /\ AuxIdle

NextReplace ==
  \/ \E t \in Tenants : H_CreateSession(t)
  \/ \E p \in ProvIds, ok \in BOOLEAN : B_Connected(p, ok)
  \/ \E p \in ProvIds : B_ConnectTimeout(p)
  \/ \E p \in ProvIds, r \in CloseReasons : B_Close(p, r)
  \/ \E p \in ProvIds : B_Open(p)
  \/ \E x \in timers : B_ReconnectTimer(x)

SpecReplace == InitReplace /\ [][NextReplace]_vars

\* =========================================================================
\* properties
\* =========================================================================

HasSession(t) == sessions[t] # 0
SessionOf(t)  == sess[sessions[t]]
TimersOf(t)   == {x \in timers : x.salonId = t}
PollersOf(t)  == {x \in intervals : x.salonId = t}
ApiCalls      == {"createSession", "disconnectSession",
                  "disconnectSession.return", "onStatusChange"}
Range(seq)    == {seq[k] : k \in 1..Len(seq)}

RECURSIVE SumOver(_, _)
SumOver(f, S) ==
  IF S = {} THEN 0
  ELSE LET x == CHOOSE y \in S : TRUE IN f[x] + SumOver(f, S \ {x})

\* pollPendingMessages calls in flight (the model has one tenant, so every
\* polling closure is that tenant's).
TicksInFlight(t) == polls[t] + SumOver(ticks, PollerIds)

\* C1: in every state of a session of the hybrid manager, activeProvider is
\* non-null if and only if the status is `connected`.
C1_ActiveProviderIffConnected ==
  \A t \in Tenants :
    (useHybridProviders /\ HasSession(t)) =>
      (SessionOf(t).activeProvider # Null <=> SessionOf(t).status = "connected")

\* C2: in every state of a session, the QR payload (qrCode / qrCodeBase64)
\* is non-null if and only if the status is `qr_ready`.
C2_QrPayloadIffQrReady ==
  \A t \in Tenants :
    HasSession(t) =>
      ((SessionOf(t).qrCode # Null \/ SessionOf(t).qrCodeBase64 # Null)
         <=> SessionOf(t).status = "qr_ready")

\* C3: a poller is registered for a tenant if and only if the tenant's
\* session exists with status `connected`, and no tenant has two pollers.
C3_PollerIffConnected ==
  \A t \in Tenants :
    /\ pollingIntervals[t] # 0
         <=> (HasSession(t) /\ SessionOf(t).status = "connected")
    /\ Cardinality(PollersOf(t)) <= 1

\* C4: at most one poller tick (pollPendingMessages) is in flight per
\* tenant, also across a stop and restart of the poller.
C4_OneTickInFlight ==
  \A t \in Tenants : TicksInFlight(t) <= 1

\* C5: at most one reconnect timer is outstanding per tenant.
C5_OneReconnectTimer ==
  \A t \in Tenants : Cardinality(TimersOf(t)) <= 1

\* C6: once disconnectSession has removed the session of a tenant, a late
\* provider event starts no poller, schedules no reconnect timer and no
\* queue drain, and creates no session for the tenant.
C6_LateEventsDropped ==
  [][\A t \in Tenants :
       (~HasSession(t) /\ lastOp # "start" /\ lastOp' \notin ApiCalls) =>
         /\ sessions'[t] = 0
         /\ pollingIntervals'[t] = pollingIntervals[t]
         /\ PollersOf(t)' \subseteq PollersOf(t)
         /\ TimersOf(t)' \subseteq TimersOf(t)
         /\ drains' = 0]_vars

\* C7: when disconnectSession completes, no session record, no poller and
\* no reconnect timer of the tenant is left.
C7_DisconnectLeavesNothing ==
  lastOp = "disconnectSession.return" =>
    \A t \in Tenants :
      /\ ~HasSession(t)
      /\ pollingIntervals[t] = 0
      /\ PollersOf(t) = {}
      /\ TimersOf(t) = {}

\* The callbacks subscribed to the tenant when the disconnectSession call
\* that returns in this step was made.
SubscribedAtCall(t) ==
  IF \E d \in disconnecting : d \notin disconnecting' /\ d.salonId = t
  THEN (CHOOSE d \in disconnecting :
          d \notin disconnecting' /\ d.salonId = t).subs
  ELSE Subscribers(statusCallbacks, t)

\* C8: disconnectSession emits a final `disconnected` event that reaches
\* every callback subscribed to the tenant when the call was made.
C8_FinalDisconnectedDelivered ==
  [][lastOp' = "disconnectSession.return" =>
       \A t \in Tenants :
         \E k \in 1..Len(emitted') :
           /\ emitted'[k].salonId = t
           /\ emitted'[k].status = "disconnected"
           /\ SubscribedAtCall(t) \subseteq Range(emitted'[k].to)]_vars

\* C9: createSession on a tenant whose session is `connected` changes
\* nothing: no event, no provider made or connected, session, poller and
\* timers as they were.
C9_CreateOnConnectedIsNoOp ==
  [][\A t \in Tenants :
       (/\ lastOp' = "createSession"
        /\ HasSession(t)
        /\ SessionOf(t).status = "connected") =>
         /\ emitted' = <<>>
         /\ drains' = 0
         /\ UNCHANGED <<sessions, sess, sock, creating, rendering, prov,
                        pollingIntervals, intervals, isPolling, ticks, polls,
                        reconnectTimers, timers, statusCallbacks,
                        disconnecting>>]_vars

C9_Witness ==
  /\ lastOp = "createSession"
  /\ emitted = <<>>
  /\ \E t \in Tenants : /\ HasSession(t)
                        /\ SessionOf(t).status = "connected"
                        /\ pollingIntervals[t] # 0

\* The reconnect counter of the tenant: on the session record in
\* session-manager.js, on the Baileys provider of the session in the hybrid
\* manager.
Attempts(ss, ses, prv, t) ==
  IF useHybridProviders
  THEN IF ses[ss[t]].providers["baileys"] # 0
       THEN prv[ses[ss[t]].providers["baileys"]].reconnectAttempts
       ELSE 0
  ELSE ses[ss[t]].reconnectAttempts

\* The connection status the counter goes with.
Phase(ss, ses, prv, t) ==
  IF useHybridProviders /\ ses[ss[t]].providers["baileys"] # 0
  THEN prv[ses[ss[t]].providers["baileys"]].status
  ELSE ses[ss[t]].status

\* C10: outside the API calls, the reconnect counter of a tenant goes down
\* only on entering `connected` or on a bad-session close (which leaves it
\* at 1, reconnecting); the reconnect timer does not reset it.
C10_AttemptsMonotonic ==
  [][\A t \in Tenants :
       (/\ sessions[t] # 0 /\ sessions'[t] # 0
        /\ lastOp' \notin ApiCalls
        /\ Attempts(sessions', sess', prov', t) < Attempts(sessions, sess, prov, t))
       => \/ Phase(sessions', sess', prov', t) = "connected"
          \/ /\ Attempts(sessions', sess', prov', t) = 1
             /\ Phase(sessions', sess', prov', t) = "reconnecting"]_vars

\* C11: a close (neither logout nor bad-session) moves the connection to
\* `failed` only when it finds the reconnect counter at MAX = 8 or more;
\* every close that finds it below 8 schedules a reconnect instead.
C11_FailedOnlyAfterMax ==
  [][/\ \A p \in ProvIds :
          (/\ prov[p].socket \in {"fresh", "open"}
           /\ prov'[p].socket = "closed"
           /\ prov'[p].status = "failed")
          => prov[p].reconnectAttempts >= maxReconnectAttempts
     /\ \A i \in SessionIds :
          (/\ sock[i] \in {"fresh", "open"}
           /\ sock'[i] = "closed"
           /\ sess'[i].status = "failed")
          => sess[i].reconnectAttempts >= maxReconnectAttempts]_vars

\* =========================================================================
\* the reconnect delay
\* =========================================================================

RandomSteps == 8      \* Math.random() returns k / RandomSteps, 0 <= k < RandomSteps

baseDelay == 1000
maxDelay  == 60000
\* The jitter factor 0.3 as a fraction.
jitterNum == 3
jitterDen == 10

RECURSIVE pow2(_)
pow2(n) == IF n = 0 THEN 1 ELSE 2 * pow2(n - 1)

MathMin(a, b) == IF a <= b THEN a ELSE b

\* A calculateBackoffDelay without the 60 s ceiling.
calculateBackoffDelayNoCap(attempt, k) ==
  LET exponentialDelay == baseDelay * pow2(attempt)
  IN (exponentialDelay * jitterDen * RandomSteps + k * exponentialDelay * jitterNum)
       \div (jitterDen * RandomSteps)

\* calculateBackoffDelay(attempt) of session-manager.js, with Math.random()
\* returning k / RandomSteps:
\*   Math.floor(exponentialDelay + (k / RandomSteps) * exponentialDelay * 0.3)
calculateBackoffDelay(attempt, k) ==
  LET exponentialDelay == MathMin(baseDelay * pow2(attempt), maxDelay)
  IN (exponentialDelay * jitterDen * RandomSteps + k * exponentialDelay * jitterNum)
       \div (jitterDen * RandomSteps)

\* BaileysProvider.calculateBackoffDelay(attempt): the same computation.
B_calculateBackoffDelay(attempt, k) ==
  LET exponentialDelay == MathMin(baseDelay * pow2(attempt), maxDelay)
  IN (exponentialDelay * jitterDen * RandomSteps + k * exponentialDelay * jitterNum)
       \div (jitterDen * RandomSteps)

managerVars == <<useHybridProviders, sessions, sess, sock, creating, rendering,
                 disconnecting, statusCallbacks, emitted, pollingIntervals,
                 intervals, isPolling, ticks, reconnectTimers, timers, drains,
                 prov, providerPriority, polls, lastOp>>
sessionVars == <<managerVars, laterVars>>

\* The close branch of session-manager.js computes the delay of reconnect
\* number n (1 <= n <= maxReconnectAttempts).
L_Backoff ==
  /\ backoffBy = "none"
  /\ backoffAttempt <= maxReconnectAttempts
  /\ backoffDelay' = calculateBackoffDelay(backoffAttempt, backoffRandom)
  /\ backoffBy' = "session-manager"
  /\ UNCHANGED <<backoffAttempt, backoffRandom, sessionVars, sendVars, queueVars>>

\* The close branch of BaileysProvider does the same for its own counter.
B_Backoff ==
  /\ backoffBy = "none"
  /\ backoffAttempt <= providerMaxReconnectAttempts
  /\ backoffDelay' = B_calculateBackoffDelay(backoffAttempt, backoffRandom)
  /\ backoffBy' = "baileys-provider"
  /\ UNCHANGED <<backoffAttempt, backoffRandom, sessionVars, sendVars, queueVars>>

\* The reconnect number and the random draw are the inputs.
InitBackoff ==
  /\ InitWith(FALSE, <<>>)
  /\ backoffAttempt \in 1..maxReconnectAttempts
  /\ backoffRandom \in 0..(RandomSteps - 1)
  /\ backoffDelay = 0
  /\ backoffBy = "none"
  /\ SendIdle
  /\ QueueIdle
  /\ LaterIdle

NextBackoff ==
  \/ L_Backoff
  \/ B_Backoff

SpecBackoff == InitBackoff /\ [][NextBackoff]_vars

\* C12 (as stated): the delay of reconnect number N, 1 <= N <= MAX, is at
\* least 1000 * 2^N and at most 1.3 * min(60000, 1000 * 2^N) milliseconds.
C12_DelayBounds ==
  backoffBy # "none" =>
    /\ baseDelay * pow2(backoffAttempt) <= backoffDelay
    /\ jitterDen * backoffDelay <=
         (jitterDen + jitterNum) * MathMin(maxDelay, baseDelay * pow2(backoffAttempt))

\* C12 (amended): the delay of reconnect number N is at least the base
\* delay min(60000, 1000 * 2^N) and at most 1.3 times the base delay.
C12_DelayWithinJitterOfBase ==
  backoffBy # "none" =>
    LET base == MathMin(maxDelay, baseDelay * pow2(backoffAttempt)) IN
    /\ base <= backoffDelay
    /\ jitterDen * backoffDelay <= (jitterDen + jitterNum) * base

\* A delay was computed for a reconnect number whose exponential exceeds the
\* ceiling, with a non-zero jitter.
C12_Witness ==
  /\ backoffBy = "session-manager"
  /\ baseDelay * pow2(backoffAttempt) > maxDelay
  /\ backoffDelay > maxDelay

\* =========================================================================
\* sendMessage of the hybrid manager (src/unnamed/part_000, 232-312)
\* =========================================================================

MaxRetries == 3       \* fallback.maxRetries ranges over 1..MaxRetries
MaxCount   == 1       \* successCount / failureCount before the call: 0..MaxCount

\* --------------------------------------------------------- error objects
\* CloudApiProvider.isRetryableError(code, statusCode); the code is a
\* number here, or "UNKNOWN" (codeNum = 0).
isRetryableError(codeNum, statusCode) ==
  \/ codeNum \in {130429, 80007}
  \/ statusCode >= 500

\* A normalizeError that keeps BaseProvider's default `retryable: true`.
C_normalizeErrorRetryable(raw) ==
  LET errorCode == IF raw.ecode # 0 THEN raw.ecode ELSE raw.status IN
  [code |-> IF errorCode # 0 THEN "number" ELSE "UNKNOWN",
   codeNum |-> errorCode,
   message |-> "",
   isRateLimit |-> errorCode \in {130429, 80007},
   isTemplateError |-> errorCode \in {132000, 132001, 132005, 132007, 132012, 132015},
   isInvalidPhone |-> errorCode \in {131026, 131047, 131051},
   isAuthError |-> (raw.status = 401 \/ errorCode = 190),
   retryable |-> TRUE]

\* CloudApiProvider.normalizeError(error): raw.status is
\* error.response?.status, raw.ecode is error.response?.data?.error?.code
\* (0: undefined).
C_normalizeError(raw) ==
  LET errorCode == IF raw.ecode # 0 THEN raw.ecode ELSE raw.status IN
  [code |-> IF errorCode # 0 THEN "number" ELSE "UNKNOWN",
   codeNum |-> errorCode,
   message |-> "",
   isRateLimit |-> errorCode \in {130429, 80007},
   isTemplateError |-> errorCode \in {132000, 132001, 132005, 132007, 132012, 132015},
   isInvalidPhone |-> errorCode \in {131026, 131047, 131051},
   isAuthError |-> (raw.status = 401 \/ errorCode = 190),
   retryable |-> isRetryableError(errorCode, raw.status)]

\* BaileysProvider.normalizeError(error): raw.code is error.code ("" when
\* undefined), raw.notRegistered / raw.invalid say whether error.message
\* includes 'not registered' / 'invalid'.
B_normalizeError(raw) ==
  [code |-> IF raw.code # "" THEN raw.code ELSE "BAILEYS_ERROR",
   codeNum |-> 0,
   message |-> raw.message,
   isRateLimit |-> FALSE,
   isTemplateError |-> FALSE,
   isInvalidPhone |-> (raw.notRegistered \/ raw.invalid),
   isAuthError |-> FALSE,
   retryable |-> ~raw.notRegistered]

\* What BaileysProvider.sendTemplateMessage throws.
TemplateNotSupported ==
  [NoError EXCEPT !.code = "TEMPLATE_NOT_SUPPORTED", !.isTemplateError = TRUE]

\* new Error(message) thrown by sendMessage itself.
PlainError(message) == [NoError EXCEPT !.code = "Error", !.message = message]

\* The failures of this.api.post: no response (the 30 s axios timeout),
\* HTTP 500, rate limit, invalid recipient, bad token, template error,
\* invalid parameter.
CloudFailures ==
  {[status |-> 0, ecode |-> 0], [status |-> 500, ecode |-> 0],
   [status |-> 429, ecode |-> 130429], [status |-> 400, ecode |-> 131026],
   [status |-> 401, ecode |-> 190], [status |-> 400, ecode |-> 132000],
   [status |-> 400, ecode |-> 100]}

\* The failures of this.socket.sendMessage: a network timeout, a timed-out
\* query, a number that is not on WhatsApp, an invalid recipient.
BaileysFailures ==
  {[code |-> "ETIMEDOUT", message |-> "", notRegistered |-> FALSE, invalid |-> FALSE],
   [code |-> "", message |-> "Timed Out", notRegistered |-> FALSE, invalid |-> FALSE],
   [code |-> "", message |-> "not registered", notRegistered |-> TRUE, invalid |-> FALSE],
   [code |-> "", message |-> "invalid", notRegistered |-> FALSE, invalid |-> TRUE]}

\* new Error('Not connected') at the head of BaileysProvider.sendTextMessage.
NotConnected ==
  [code |-> "", message |-> "Not connected", notRegistered |-> FALSE, invalid |-> FALSE]

\* getFallbackConfig(config).triggers: the defaults of loadConfig.
onTimeout       == TRUE
onRateLimit     == TRUE
onTemplateError == TRUE
onServerError   == TRUE

DefaultTriggers ==
  [onTimeout |-> onTimeout, onRateLimit |-> onRateLimit,
   onTemplateError |-> onTemplateError, onServerError |-> onServerError]

\* shouldTriggerFallback(error, fallbackConfig) of provider-config.js, with
\* fallbackConfig.enabled and fallbackConfig.triggers given; a string code
\* compared with 500 gives false.
triggersFallback(error, enabled, triggers) ==
  /\ enabled
  /\ \/ triggers.onTimeout /\ error.code \in {"ETIMEDOUT", "ECONNRESET"}
     \/ triggers.onRateLimit /\ error.isRateLimit
     \/ triggers.onTemplateError /\ error.isTemplateError
     \/ triggers.onServerError /\ error.code = "number" /\ error.codeNum >= 500

\* shouldTriggerFallback(error, fallbackConfig) with the default triggers.
shouldTriggerFallback(error, fb) ==
  triggersFallback(error, fb.enabled, DefaultTriggers)

\* BaseProvider.isHealthy(threshold = 0.3)
isHealthy(p) ==
  LET total == health[p].successCount + health[p].failureCount IN
  /\ prov[p].status = "connected"
  /\ \/ total = 0
     \/ 10 * health[p].failureCount < 3 * total

\* ------------------------------------------------------- the retry loops
\* A retry budget that ignores fallback.enabled.
maxRetriesWhateverEnabled == fallback.maxRetries

\* const maxRetries = fallbackConfig.enabled ? fallbackConfig.maxRetries : 1
maxRetries == IF fallback.enabled THEN fallback.maxRetries ELSE 1

\* The frame `f` holds the locals of the call; f.k and f.retry are the
\* positions of the two loops, f.log the providers a send method was
\* called on, in order, f.healthAtCall the health counters when the call
\* was made.  The three operators run the loops from a point of
\* the code to the next await that suspends the call (pc "dispatch": the
\* provider's network request, pc "sleep": the delay before a retry) or to
\* its end (pc "returned" / "thrown"); f.errors lists what those calls threw.
RECURSIVE S_enter(_, _), S_attempt(_, _, _), S_onError(_, _, _, _)

\* for (const providerName of providerOrder), from the k-th name on.
S_enter(f, k) ==
  IF k > Len(f.order)
  THEN [f EXCEPT !.pc = "thrown", !.k = k,
                 !.result = [kind |-> "error", provider |-> Null,
                             error |-> IF f.lastError.code # "none"
                                       THEN f.lastError
                                       ELSE PlainError("All providers failed to send message")]]
  ELSE LET p == sess[f.sid].providers[f.order[k]] IN
       IF p = 0 THEN S_enter(f, k + 1)
       ELSE IF ~isHealthy(p) /\ Len(f.order) > 1 THEN S_enter(f, k + 1)
       ELSE S_attempt(f, k, 0)

\* for (let retry = 0; retry < maxRetries; retry++), from `retry` on: the
\* provider's send method is called; BaileysProvider throws at once for a
\* template and when it is not connected.
S_attempt(f, k, retry) ==
  IF retry >= maxRetries THEN S_enter(f, k + 1)
  ELSE LET type == f.order[k]
           p    == sess[f.sid].providers[type]
           f1   == [f EXCEPT !.attempts = @ + 1, !.log = Append(@, type),
                             !.k = k, !.retry = retry]
       IN IF type = "baileys" /\ f.template
          THEN S_onError(f1, k, retry, TemplateNotSupported)
          ELSE IF type = "baileys" /\ prov[p].status # "connected"
          THEN S_onError(f1, k, retry, B_normalizeError(NotConnected))
          ELSE [f1 EXCEPT !.pc = "dispatch"]

\* The catch block of the retry loop.
S_onError(f, k, retry, error) ==
  LET f1 == [f EXCEPT !.lastError = error, !.errors = Append(@, error)] IN
  IF shouldTriggerFallback(error, fallback) THEN S_enter(f1, k + 1)
  ELSE IF error.retryable /\ retry < maxRetries - 1
  THEN [f1 EXCEPT !.pc = "sleep"]
  ELSE IF ~error.retryable THEN S_enter(f1, k + 1)
  ELSE S_attempt(f1, k, retry + 1)

\* [activeProvider, ...providerPriority.filter(p => p !== activeProvider)]
\*   .filter(Boolean)
providerOrderOf(active, priority) ==
  (IF active = Null THEN <<>> ELSE <<active>>) \o
  SelectSeq(priority, LAMBDA x : x # active)

\* The `if (templateName)` block: cloud_api is moved to the head.
templateOrder(order) ==
  IF \E j \in 2..Len(order) : order[j] = "cloud_api"
  THEN <<"cloud_api">> \o SelectSeq(order, LAMBDA x : x # "cloud_api")
  ELSE order

\* sendMessage(salonId, phone, content, options) up to its first await.
SendMessage(t, template) ==
  LET i     == sessions[t]
      order == IF template
               THEN templateOrder(providerOrderOf(sess[i].activeProvider, configPriority))
               ELSE providerOrderOf(sess[i].activeProvider, configPriority)
      f0    == [NoSend EXCEPT !.template = template, !.order = order,
                              !.healthAtCall = health]
      fail(message) ==
        [NoSend EXCEPT !.pc = "thrown", !.template = template,
                       !.result = [kind |-> "error", provider |-> Null,
                                   error |-> PlainError(message)]]
  IN
  /\ useHybridProviders
  /\ send.pc = "idle"
  /\ send' = IF i = 0 THEN fail("Session not found")
             ELSE IF template /\ "cloud_api" \notin Range(order)
             THEN [fail("Templates require Cloud API provider") EXCEPT !.order = order]
             ELSE S_enter([f0 EXCEPT !.sid = i], 1)
  /\ UNCHANGED <<sessionVars, backoffVars, queueVars, configPriority,
                 fallback, health>>

\* The provider's request succeeds: recordSuccess, and sendMessage returns
\* the provider's result.
SendSucceeded ==
  LET type == send.order[send.k]
      p    == sess[send.sid].providers[type]
  IN
  /\ send.pc = "dispatch"
  /\ health' = [health EXCEPT ![p].successCount = @ + 1]
  /\ send' = [send EXCEPT !.pc = "returned",
                          !.result = [kind |-> "ok", provider |-> type,
                                      error |-> NoError]]
  /\ UNCHANGED <<sessionVars, backoffVars, queueVars, configPriority,
                 fallback>>

\* The provider's request fails: recordFailure, the normalized error is
\* thrown into the catch block of the retry loop.
SendFailed(raw) ==
  LET type == send.order[send.k]
      p    == sess[send.sid].providers[type]
  IN
  /\ send.pc = "dispatch"
  /\ raw \in (IF type = "cloud_api" THEN CloudFailures ELSE BaileysFailures)
  /\ health' = [health EXCEPT ![p].failureCount = @ + 1]
  /\ send' = S_onError(send, send.k, send.retry,
                       IF type = "cloud_api" THEN C_normalizeError(raw)
                       ELSE B_normalizeError(raw))
  /\ UNCHANGED <<sessionVars, backoffVars, queueVars, configPriority,
                 fallback>>

\* await sleep(fallbackConfig.retryDelayMs * (retry + 1)) is over.
SendSleepDone ==
  /\ send.pc = "sleep"
  /\ send' = S_attempt(send, send.k, send.retry + 1)
  /\ UNCHANGED <<sessionVars, backoffVars, queueVars, configPriority,
                 fallback, health>>

\* ------------------------------------------------ the session of a call
\* getProviderPriorityFromEnv(): the primary provider, then the other one
\* when it is enabled.
ConfigPriorities ==
  {<<"baileys">>, <<"baileys", "cloud_api">>,
   <<"cloud_api">>, <<"cloud_api", "baileys">>}

CloudStatuses   == {"connecting", "connected", "failed"}
BaileysStatuses == {"connecting", "qr_ready", "connected", "reconnecting",
                    "logged_out", "failed"}

\* The sessions createSession and the provider callbacks leave behind.
\* createSession installs the providers of
\* ProviderFactory.getProviderPriority (the configured ones that are
\* available) in order, and the second one only when the first one's
\* connect() was rejected.  A Cloud API provider is `connected` exactly when
\* its connect() resolved, which makes it the active provider; a Baileys
\* provider changes status on its own after the call, and is the active
\* provider once it has been connected with no provider active.
SessionShape(cfg, cloudAvailable, firstRejected, cs, bs, active) ==
  LET factory   == SelectSeq(cfg, LAMBDA x : x = "baileys" \/ cloudAvailable)
      installed == IF Len(factory) = 2 /\ firstRejected
                   THEN {factory[1], factory[2]} ELSE {factory[1]}
      hasC      == "cloud_api" \in installed
      hasB      == "baileys" \in installed
  IN
  /\ Len(factory) > 0
  /\ firstRejected => Len(factory) = 2
  /\ (factory[1] = "cloud_api" /\ firstRejected) => cs = "failed"
  /\ (factory[1] = "cloud_api" /\ ~firstRejected /\ Len(factory) = 2) => cs # "failed"
  /\ (factory[1] = "baileys" /\ ~firstRejected /\ bs = "connecting") => active = Null
  /\ ~hasC => cs = "connecting"
  /\ ~hasB => bs = "connecting"
  /\ active = "cloud_api" <=> (hasC /\ cs = "connected")
  /\ active = "baileys" => hasB
  /\ (hasB /\ bs = "connected" /\ ~(hasC /\ cs = "connected")) => active = "baileys"
  /\ providerPriority = factory
  /\ configPriority = cfg
  /\ sessions = [t \in Tenants |-> 1]
  /\ LET pc == IF hasC THEN 1 ELSE 0
         pb == IF hasB THEN pc + 1 ELSE 0
     IN /\ sess = [i \in SessionIds |->
                    IF i = 1
                    THEN [HybridSession("s1") EXCEPT
                            !.activeProvider = active,
                            !.status = IF active # Null THEN "connected"
                                       ELSE "initializing",
                            !.providers = [cloud_api |-> pc, baileys |-> pb]]
                    ELSE EmptySession]
        /\ prov = [p \in ProvIds |->
                    IF p = pc
                    THEN [NewProvider("cloud_api", "s1") EXCEPT !.status = cs]
                    ELSE IF p = pb
                    THEN [NewProvider("baileys", "s1") EXCEPT
                            !.status = bs,
                            !.hasSocket = (bs = "connected"),
                            !.socket = IF bs = "connected" THEN "open" ELSE Null]
                    ELSE EmptyProv]
        /\ health \in [ProvIds -> [successCount : 0..MaxCount,
                                   failureCount : 0..MaxCount]]
        /\ \A p \in ProvIds : p \notin {pc, pb} => health[p] = NoHealth

\* A session of the hybrid manager at rest, its configuration, and the
\* health counters that earlier sends left on its providers.
InitSend ==
  /\ useHybridProviders = TRUE
  /\ sock = [i \in SessionIds |-> "none"]
  /\ creating = {}
  /\ rendering = {}
  /\ disconnecting = {}
  /\ statusCallbacks = [t \in Tenants |-> NoCallbacks]
  /\ emitted = <<>>
  /\ pollingIntervals = [t \in Tenants |-> 0]
  /\ intervals = {}
  /\ isPolling = [j \in PollerIds |-> FALSE]
  /\ ticks = [j \in PollerIds |-> 0]
  /\ reconnectTimers = [t \in Tenants |-> 0]
  /\ timers = {}
  /\ drains = 0
  /\ polls = [t \in Tenants |-> 0]
  /\ lastOp = "start"
  /\ BackoffIdle
  /\ QueueIdle
  /\ LaterIdle
  /\ send = NoSend
  /\ fallback \in [enabled : BOOLEAN, maxRetries : 1..MaxRetries]
  /\ \E cfg \in ConfigPriorities, cloudAvailable \in BOOLEAN,
        firstRejected \in BOOLEAN, cs \in CloudStatuses,
        bs \in BaileysStatuses, active \in {Null, "cloud_api", "baileys"} :
       SessionShape(cfg, cloudAvailable, firstRejected, cs, bs, active)

NextSend ==
  \/ \E t \in Tenants, template \in BOOLEAN : SendMessage(t, template)
  \/ SendSucceeded
  \/ \E raw \in CloudFailures \cup BaileysFailures : SendFailed(raw)
  \/ SendSleepDone

SpecSend == InitSend /\ [][NextSend]_vars

\* C13: when a provider's send fails with an invalid_phone or auth_error
\* error, that call to the provider is the last one of the sendMessage call
\* (no retry, no other provider) and the error is what the caller receives.
C13_NoRetryNoFailover ==
  \A j \in 1..Len(send.errors) :
    (send.errors[j].isInvalidPhone \/ send.errors[j].isAuthError)
    => /\ Len(send.log) = j
       /\ send.pc = "thrown"
       /\ send.result.error = send.errors[j]

\* C14: a template send on a session without an installed cloud_api
\* provider fails with a template-not-supported error and calls no send
\* method of the Baileys provider.
C14_TemplateNeedsCloudApi ==
  (/\ send.pc # "idle"
   /\ send.template
   /\ send.sid # 0
   /\ sess[send.sid].providers["cloud_api"] = 0)
  => /\ send.pc = "thrown"
     /\ send.log = <<>>
     /\ \/ send.result.error.code = "TEMPLATE_NOT_SUPPORTED"
        \/ send.result.error.message = "Templates require Cloud API provider"

\* The providers of the order that are installed on the session of the call.
Candidates ==
  {j \in 1..Len(send.order) : sess[send.sid].providers[send.order[j]] # 0}

\* C15: whenever a candidate provider is installed on the session, a
\* sendMessage call that has run its provider loop has called a send method
\* at least once (the last candidate is tried even if unhealthy).
C15_LastCandidateIsTried ==
  (/\ send.pc \in {"returned", "thrown"}
   /\ send.sid # 0
   /\ send.result.error.message # "Templates require Cloud API provider"
   /\ Candidates # {})
  => Len(send.log) >= 1

\* The number of entries of a sequence that are equal to x.
CountOf(seq, x) == Cardinality({j \in 1..Len(seq) : seq[j] = x})

\* C16: within one sendMessage call no provider's send method is called
\* more than R times (R = fallback.maxRetries when fallback is enabled, 1
\* otherwise); it is called again on the same provider only after a failure
\* that is retryable and does not trigger the fallback; the calls number at
\* most R times the candidates.
C16_RetryBudget ==
  LET R == IF fallback.enabled THEN fallback.maxRetries ELSE 1 IN
  /\ \A type \in {"cloud_api", "baileys"} : CountOf(send.log, type) <= R
  /\ send.sid # 0 => Len(send.log) <= R * Cardinality(Candidates)
  /\ send.attempts = Len(send.log)
  /\ \A j \in 2..Len(send.log) :
       send.log[j] = send.log[j - 1]
       => /\ j - 1 <= Len(send.errors)
          /\ send.errors[j - 1].retryable
          /\ ~shouldTriggerFallback(send.errors[j - 1], fallback)

\* A call that used the whole budget of one provider, went on to another
\* one and ended.
C16_Witness ==
  /\ fallback.enabled /\ fallback.maxRetries >= 2
  /\ send.pc \in {"returned", "thrown"}
  /\ CountOf(send.log, "baileys") = fallback.maxRetries
  /\ CountOf(send.log, "cloud_api") = 1

\* A timeout as the providers report it: no response from the Cloud API
\* (code UNKNOWN), a network timeout or a timed-out query of Baileys.
IsTimeout(error) ==
  \/ error.code \in {"ETIMEDOUT", "UNKNOWN"}
  \/ error.message = "Timed Out"

\* The text send in which the active provider timed out, nothing else
\* failed, and which returned another provider's result.
TimeoutThenSuccess ==
  /\ send.pc = "returned"
  /\ ~send.template
  /\ Len(send.errors) >= 1
  /\ \A j \in 1..Len(send.errors) :
       /\ send.log[j] = sess[send.sid].activeProvider
       /\ IsTimeout(send.errors[j])
  /\ send.result.provider # send.log[1]

\* C17: when sendText of the active provider times out and sendText of the
\* next candidate succeeds, sendMessage returns the second provider's result
\* after exactly one call to each; the first provider's failureCount and the
\* second provider's successCount grow by one, no other counter changes.
C17_TimeoutFailsOver ==
  TimeoutThenSuccess =>
    LET p1 == sess[send.sid].providers[send.log[1]]
        p2 == sess[send.sid].providers[send.result.provider]
    IN /\ send.log = <<send.log[1], send.result.provider>>
       /\ send.result.kind = "ok"
       /\ health = [send.healthAtCall EXCEPT ![p1].failureCount = @ + 1,
                                            ![p2].successCount = @ + 1]

\* The Cloud API timed out and Baileys delivered the message.
C17_Witness ==
  /\ TimeoutThenSuccess
  /\ send.log = <<"cloud_api", "baileys">>
  /\ send.errors[1].code = "UNKNOWN"

\* =========================================================================
\* queue.js (src/unnamed/part_000, 699-828) and the webhook forwarder
\* =========================================================================

TimeStep == 86400000  \* the clock advances by 24 h at a time

MESSAGE_TTL == 86400000
\* `m.attempts >= 5` of cleanupFailedMessages.
maxQueueAttempts == 5

\* The variables of queue.js that the queue functions read and write.
Q_state ==
  [messageQueue |-> messageQueue, saveInProgress |-> saveInProgress,
   pendingSave |-> pendingSave, writing |-> writing]

\* A saveQueue that drops the request made while a write is in flight.
saveQueueNoDebounce(q) ==
  IF q.saveInProgress THEN q
  ELSE [q EXCEPT !.saveInProgress = TRUE, !.writing = q.messageQueue]

\* saveQueue() up to `await fs.writeFile(...)`: JSON.stringify takes the
\* queue of this moment.
saveQueue(q) ==
  IF q.saveInProgress THEN [q EXCEPT !.pendingSave = TRUE]
  ELSE [q EXCEPT !.saveInProgress = TRUE, !.writing = q.messageQueue]

\* enqueue(messageData) at Date.now() = t.
enqueue(q, id, t) ==
  saveQueue([q EXCEPT !.messageQueue =
               Append(@, [messageId |-> id, queuedAt |-> t, attempts |-> 0])])

\* dequeue(messageId)
dequeue(q, id) ==
  saveQueue([q EXCEPT !.messageQueue = SelectSeq(@, LAMBDA m : m.messageId # id)])

\* incrementAttempts(messageId): messageQueue.find gives the first match.
incrementAttempts(q, id) ==
  LET found == {j \in 1..Len(q.messageQueue) : q.messageQueue[j].messageId = id}
  IN IF found = {} THEN q
     ELSE saveQueue([q EXCEPT !.messageQueue[Min(found)].attempts = @ + 1])

\* cleanupFailedMessages() at Date.now() = t.
cleanupFailedMessages(q, t) ==
  LET kept == SelectSeq(q.messageQueue,
                        LAMBDA m : /\ ~(m.attempts >= maxQueueAttempts)
                                   /\ ~((t - m.queuedAt) >= MESSAGE_TTL))
  IN IF Len(q.messageQueue) - Len(kept) > 0
     THEN saveQueue([q EXCEPT !.messageQueue = kept])
     ELSE [q EXCEPT !.messageQueue = kept]

\* A file whose content does not parse as JSON.
CorruptFile == <<[messageId |-> "corrupt", queuedAt |-> 0, attempts |-> 0]>>

\* A loadQueue that starts every loaded entry afresh.
loadQueueFresh(file, t) ==
  IF file = CorruptFile THEN <<>>
  ELSE LET kept == SelectSeq(file, LAMBDA m : (t - m.queuedAt) < MESSAGE_TTL)
       IN [j \in 1..Len(kept) |-> [kept[j] EXCEPT !.attempts = 0]]

\* loadQueue() at Date.now() = t: a file that does not parse gives [].
loadQueue(file, t) ==
  IF file = CorruptFile THEN <<>>
  ELSE SelectSeq(file, LAMBDA m : (t - m.queuedAt) < MESSAGE_TTL)

\* A step of the queue module ends.
Q_Apply(q) ==
  /\ messageQueue' = q.messageQueue
  /\ saveInProgress' = q.saveInProgress
  /\ pendingSave' = q.pendingSave
  /\ writing' = q.writing

\* The state outside queue.js.  Every step of the queue below is a step of
\* the running process (exitCode = "none").
frameVars == <<sessionVars, backoffVars, sendVars>>

\* A provider delivers message `id`: handleIncomingMessage, forwardToWebhook
\* up to `await axios.post`.
Incoming(id) ==
  /\ exitCode = "none"
  /\ delivered < MaxDeliveries
  /\ delivered' = delivered + 1
  /\ forwards' = [forwards EXCEPT ![id] = @ + 1]
  /\ UNCHANGED <<frameVars, messageQueue, queueFile, saveInProgress, pendingSave,
                 writing, immediates, drainPass, now, restarts>>

WebhookOutcomes == {"ok", "400", "failed"}

\* The POST of an incoming message settles (fromQueue = false).
ForwardDone(id, outcome) ==
  /\ exitCode = "none"
  /\ forwards[id] > 0
  /\ forwards' = [forwards EXCEPT ![id] = @ - 1]
  /\ IF outcome = "failed"
     THEN Q_Apply(enqueue(Q_state, id, now))
     ELSE UNCHANGED <<messageQueue, saveInProgress, pendingSave, writing>>
  /\ UNCHANGED <<frameVars, queueFile, immediates, drainPass, now, delivered, restarts>>

\* processQueue() up to the first `await axios.post`; with an empty queue
\* it returns at once.
ProcessQueue(d) ==
  /\ exitCode = "none"
  /\ drainPass[d].pc = "none"
  /\ messageQueue # <<>>
  /\ drainPass' = [drainPass EXCEPT ![d] =
       [pc |-> "post", k |-> 1,
        snapshot |-> [j \in 1..Len(messageQueue) |-> messageQueue[j].messageId]]]
  /\ UNCHANGED <<frameVars, messageQueue, queueFile, saveInProgress, pendingSave,
                 writing, immediates, forwards, now, delivered, restarts>>

\* The POST of a queued message settles (fromQueue = true), up to
\* `await sleep(500)`.
DrainPosted(d, outcome) ==
  LET id == drainPass[d].snapshot[drainPass[d].k] IN
  /\ exitCode = "none"
  /\ drainPass[d].pc = "post"
  /\ drainPass' = [drainPass EXCEPT ![d].pc = "sleep"]
  /\ IF outcome = "failed"
     THEN Q_Apply(incrementAttempts(Q_state, id))
     ELSE Q_Apply(dequeue(Q_state, id))
  /\ UNCHANGED <<frameVars, queueFile, immediates, forwards, now, delivered, restarts>>

\* sleep(500) is over: the next message of the snapshot, or the end of the
\* pass with cleanupFailedMessages().
DrainSlept(d) ==
  /\ exitCode = "none"
  /\ drainPass[d].pc = "sleep"
  /\ IF drainPass[d].k < Len(drainPass[d].snapshot)
     THEN /\ drainPass' = [drainPass EXCEPT ![d].pc = "post", ![d].k = @ + 1]
          /\ UNCHANGED <<messageQueue, saveInProgress, pendingSave, writing>>
     ELSE /\ drainPass' = [drainPass EXCEPT ![d] = NoPass]
          /\ Q_Apply(cleanupFailedMessages(Q_state, now))
  /\ UNCHANGED <<frameVars, queueFile, immediates, forwards, now, delivered, restarts>>

\* fs.writeFile settles: the catch and finally blocks of saveQueue.  The
\* callback of setImmediate runs before any later I/O completion.
WriteDone(ok) ==
  /\ exitCode = "none"
  /\ saveInProgress
  /\ immediates = 0
  /\ queueFile' = IF ok THEN writing ELSE queueFile
  /\ saveInProgress' = FALSE
  /\ pendingSave' = FALSE
  /\ immediates' = IF pendingSave THEN 1 ELSE 0
  /\ UNCHANGED <<frameVars, messageQueue, writing, forwards, drainPass, now,
                 delivered, restarts>>

\* setImmediate(() => saveQueue())
Immediate ==
  /\ exitCode = "none"
  /\ immediates > 0
  /\ immediates' = immediates - 1
  /\ Q_Apply(saveQueue(Q_state))
  /\ UNCHANGED <<frameVars, queueFile, forwards, drainPass, now, delivered, restarts>>

\* Time passes.
Tick ==
  /\ exitCode = "none"
  /\ now < MaxNow * TimeStep
  /\ now' = now + TimeStep
  /\ UNCHANGED <<frameVars, messageQueue, queueFile, saveInProgress, pendingSave,
                 writing, immediates, forwards, drainPass, delivered, restarts>>

\* The process dies and is started again: a write in flight may have
\* landed, not started, or left a truncated file; loadQueue() runs at
\* module load.
Restart(landed) ==
  /\ landed \in (IF saveInProgress THEN {"old", "new", "corrupt"} ELSE {"old"})
  /\ queueFile' = CASE landed = "old" -> queueFile
                    [] landed = "new" -> writing
                    [] OTHER -> CorruptFile
  /\ messageQueue' = loadQueue(queueFile', now)
  /\ saveInProgress' = FALSE
  /\ pendingSave' = FALSE
  /\ writing' = <<>>
  /\ immediates' = 0
  /\ forwards' = [id \in MessageIds |-> 0]
  /\ drainPass' = [d \in PassIds |-> NoPass]
  /\ restarts < MaxRestarts
  /\ restarts' = restarts + 1
  /\ UNCHANGED <<frameVars, now, delivered>>

\* The hybrid manager with no session: only the inbound path runs.
InitQueue ==
  /\ InitWith(TRUE, DefaultPriority)
  /\ BackoffIdle
  /\ SendIdle
  /\ QueueIdle
  /\ LaterIdle

NextQueue ==
  \/ \E id \in MessageIds : Incoming(id)
  \/ \E id \in MessageIds, outcome \in WebhookOutcomes : ForwardDone(id, outcome)
  \/ \E d \in DrainIds : ProcessQueue(d)
  \/ \E d \in DrainIds, outcome \in WebhookOutcomes : DrainPosted(d, outcome)
  \/ \E d \in DrainIds : DrainSlept(d)
  \/ \E ok \in BOOLEAN : WriteDone(ok)
  \/ Immediate
  \/ Tick
  \/ \E landed \in {"old", "new", "corrupt"} : Restart(landed)

SpecQueue == InitQueue /\ [][NextQueue]_vars

\* C18: at every instant every entry of the inbound delivery queue has
\* fewer than 5 attempts and was queued less than 24 h ago.
C18_QueueEntriesBounded ==
  \A j \in 1..Len(messageQueue) :
    /\ messageQueue[j].attempts < maxQueueAttempts
    /\ now - messageQueue[j].queuedAt < MESSAGE_TTL

\* C19: at every instant no two entries of the inbound delivery queue
\* share a messageId.
C19_UniqueMessageId ==
  \A i, j \in 1..Len(messageQueue) :
    messageQueue[i].messageId = messageQueue[j].messageId => i = j

\* The queue while the process stays up and the disk takes every write:
\* fs.writeFile and setImmediate always complete.
NextFlush ==
  \/ \E id \in MessageIds : Incoming(id)
  \/ \E id \in MessageIds, outcome \in WebhookOutcomes : ForwardDone(id, outcome)
  \/ \E d \in DrainIds : ProcessQueue(d)
  \/ \E d \in DrainIds, outcome \in WebhookOutcomes : DrainPosted(d, outcome)
  \/ \E d \in DrainIds : DrainSlept(d)
  \/ WriteDone(TRUE)
  \/ Immediate
  \/ Tick

SpecFlush ==
  /\ InitQueue
  /\ [][NextFlush]_vars
  /\ WF_vars(WriteDone(TRUE))
  /\ WF_vars(Immediate)

\* The file holds the queue and nothing is left to write.
Flushed ==
  /\ queueFile = messageQueue
  /\ ~saveInProgress
  /\ ~pendingSave
  /\ immediates = 0

\* A request made while a write is in flight starts no write of its own.
RequestsCoalesce ==
  (saveInProgress /\ messageQueue' # messageQueue) =>
     /\ saveInProgress'
     /\ pendingSave'
     /\ writing' = writing
     /\ immediates' = immediates

\* The end of a write schedules one follow-up write when requests are
\* pending and none otherwise.
OneFollowUp ==
  (saveInProgress /\ ~saveInProgress') =>
     /\ immediates' = (IF pendingSave THEN 1 ELSE 0)
     /\ ~pendingSave'

MaxErrors == 1        \* entries the error handlers log

\* saveQueueSync() races with the fs.writeFile in flight, which carries an
\* older queue: the file ends up with the synchronous content, with the
\* older content, or with a mix that does not parse.
WriteRaces == {"sync", "async", "mixed"}

AfterRace(race) ==
  CASE race = "sync" -> messageQueue
    [] race = "async" -> writing
    [] OTHER -> CorruptFile

\* process.exit(code): the file is what the writes that landed left.
ExitNow(code, race) ==
  /\ exitCode' = code
  /\ queueFile' = IF saveInProgress THEN AfterRace(race) ELSE messageQueue

\* gracefulShutdown(signal) up to its first await, or to process.exit(0)
\* when no session is left to disconnect.
gracefulShutdown(race, hasSessions) ==
  IF isShuttingDown
  THEN UNCHANGED <<isShuttingDown, exitCode, queueAtSignal, queueFile, writing>>
  ELSE /\ isShuttingDown' = TRUE
       /\ queueAtSignal' = messageQueue
       /\ IF hasSessions
          THEN /\ queueFile' = messageQueue
               /\ writing' = IF saveInProgress THEN AfterRace(race) ELSE writing
               /\ UNCHANGED exitCode
          ELSE /\ ExitNow("0", race)
               /\ UNCHANGED writing

queueRest == <<messageQueue, saveInProgress, pendingSave, immediates, forwards,
               drainPass, now, delivered, restarts>>

\* process.on('SIGTERM' / 'SIGINT')
Signal(race, hasSessions) ==
  /\ exitCode = "none"
  /\ gracefulShutdown(race, hasSessions)
  /\ UNCHANGED <<managerVars, backoffVars, sendVars, moreVars, queueRest, errorLog>>

NonFatal == {"ECONNRESET", "EPIPE", "ETIMEDOUT"}
ErrorMessages == NonFatal \cup {"TypeError"}

\* process.on('uncaughtException')
UncaughtException(message, race, hasSessions) ==
  /\ exitCode = "none"
  /\ Len(errorLog) < MaxErrors
  /\ errorLog' = Append(errorLog, [handler |-> "uncaughtException",
                                    message |-> message])
  /\ IF message \in NonFatal
     THEN UNCHANGED <<isShuttingDown, exitCode, queueAtSignal, queueFile, writing>>
     ELSE gracefulShutdown(race, hasSessions)
  /\ UNCHANGED <<managerVars, backoffVars, sendVars, moreVars, queueRest>>

\* process.on('unhandledRejection')
UnhandledRejection(message) ==
  /\ exitCode = "none"
  /\ Len(errorLog) < MaxErrors
  /\ errorLog' = Append(errorLog, [handler |-> "unhandledRejection",
                                    message |-> message])
  /\ UNCHANGED <<managerVars, backoffVars, sendVars, moreVars, queueVars, isShuttingDown,
                 exitCode, queueAtSignal>>

\* gracefulShutdown after the last `await disconnectSession`:
\* process.exit(0).
ShutdownDone(race) ==
  /\ exitCode = "none"
  /\ isShuttingDown
  /\ exitCode' = "0"
  /\ queueFile' = IF saveInProgress THEN AfterRace(race) ELSE queueFile
  /\ UNCHANGED <<managerVars, backoffVars, sendVars, moreVars, queueRest, writing,
                 isShuttingDown, errorLog, queueAtSignal>>

\* The 30 s shutdownTimeout fires first: process.exit(1).
ShutdownTimeout(race) ==
  /\ exitCode = "none"
  /\ isShuttingDown
  /\ exitCode' = "1"
  /\ queueFile' = IF saveInProgress THEN AfterRace(race) ELSE queueFile
  /\ UNCHANGED <<managerVars, backoffVars, sendVars, moreVars, queueRest, writing,
                 isShuttingDown, errorLog, queueAtSignal>>

\* The inbound path of a process that receives signals and errors.
NextShutdown ==
  \/ \E id \in MessageIds : Incoming(id)
  \/ \E id \in MessageIds, outcome \in WebhookOutcomes : ForwardDone(id, outcome)
  \/ \E ok \in BOOLEAN : WriteDone(ok)
  \/ Immediate
  \/ \E race \in WriteRaces, hasSessions \in BOOLEAN : Signal(race, hasSessions)
  \/ \E message \in ErrorMessages, race \in WriteRaces, hasSessions \in BOOLEAN :
       UncaughtException(message, race, hasSessions)
  \/ \E message \in ErrorMessages : UnhandledRejection(message)
  \/ \E race \in WriteRaces : ShutdownDone(race)
  \/ \E race \in WriteRaces : ShutdownTimeout(race)

SpecShutdown == InitQueue /\ [][NextShutdown]_vars

\* C21: deliveries are enqueued and shutdown is then signalled: at an exit
\* with code 0 the queue file holds exactly the deliveries enqueued before
\* the signal, with attempts = 0, also when a debounced write with an older
\* queue was in flight at the synchronous write.
C21_FileAtExitHoldsQueue ==
  (exitCode = "0" /\ messageQueue = queueAtSignal) =>
     /\ queueFile = queueAtSignal
     /\ \A j \in 1..Len(queueAtSignal) : queueAtSignal[j].attempts = 0

\* The positions of the entries of the queue with messageId id.
EntriesOf(id) == {j \in 1..Len(messageQueue) : messageQueue[j].messageId = id}

RemoveAt(seq, j) == SubSeq(seq, 1, j - 1) \o SubSeq(seq, j + 1, Len(seq))

\* What forward(m, fromQueue = false) may do to the queue.
ForwardEffect(id, outcome) ==
  IF outcome = "failed"
  THEN messageQueue' = Append(messageQueue,
                              [messageId |-> id, queuedAt |-> now, attempts |-> 0])
  ELSE messageQueue' = messageQueue

\* What forward(m, fromQueue = true) may do to the queue: one entry, m, is
\* removed or gets one more attempt, and nothing is done when m has left the
\* queue in the meantime.
RetryEffect(id, outcome) ==
  IF EntriesOf(id) = {}
  THEN messageQueue' = messageQueue
  ELSE \E j \in EntriesOf(id) :
         messageQueue' = IF outcome = "failed"
                         THEN [messageQueue EXCEPT ![j].attempts = @ + 1]
                         ELSE RemoveAt(messageQueue, j)

\* C22: forward(m, fromQueue) changes the queue exactly as its outcome
\* says and touches no other entry: 2xx and 400 remove m when it comes
\* from the queue and change nothing otherwise; any other failure
\* enqueues m with attempts = 0, or adds exactly 1 to m's attempts when it
\* comes from the queue.
C22_ForwardChangesOnlyItsEntry ==
  [][/\ \A id \in MessageIds, outcome \in WebhookOutcomes :
          ForwardDone(id, outcome) => ForwardEffect(id, outcome)
     /\ \A d \in DrainIds, outcome \in WebhookOutcomes :
          DrainPosted(d, outcome) =>
            RetryEffect(drainPass[d].snapshot[drainPass[d].k], outcome)]_vars

\* The inbound path with everything the code schedules by itself running to
\* its end: the webhook POSTs settle (15 s timeout), sleep(500) ends, the
\* writes and setImmediate callbacks complete, time passes.  Nothing in the
\* code calls processQueue() by itself: it runs 2 s after a session becomes
\* connected and on the admin request.
SpecDrain ==
  /\ InitQueue
  /\ [][NextFlush]_vars
  /\ WF_vars(\E id \in MessageIds, outcome \in WebhookOutcomes : ForwardDone(id, outcome))
  /\ WF_vars(\E d \in DrainIds, outcome \in WebhookOutcomes : DrainPosted(d, outcome))
  /\ WF_vars(\E d \in DrainIds : DrainSlept(d))
  /\ WF_vars(WriteDone(TRUE))
  /\ WF_vars(Immediate)
  /\ WF_vars(Tick)

\* C23: every inbound message reaches a terminal outcome (delivered,
\* rejected with 400, abandoned by the attempt cap or the TTL): no entry
\* stays in the inbound delivery queue forever while the process runs.
C23_NoEntryStaysForever ==
  \A id \in MessageIds : (EntriesOf(id) # {}) ~> (EntriesOf(id) = {})

\* =========================================================================
\* messages.upsert handlers (session-manager.js and BaileysProvider)
\* =========================================================================

\* What the inbound handlers leave alone.
notUpsert == <<managerVars, backoffVars, sendVars, queueVars, processVars, tick, notified,
              source, payload, decision, handles, outbox>>

\* One messages.upsert event: 1..MaxBatch messages, each a voice message
\* (ptt) or not.
Batches == UNION {[1..n -> BOOLEAN] : n \in 1..MaxBatch}

RECURSIVE U_run(_, _)
\* The handler of event e runs from message k to its next await.
\* session-manager.js awaits forwardToWebhook for each message;
\* BaileysProvider.handleIncomingMessages calls this.onMessage(normalized)
\* without awaiting the forward it starts.
U_run(u, e) ==
  LET h == u.handlers[e] IN
  IF h.k > Len(h.msgs)
  THEN [u EXCEPT !.handlers[e] = NoHandler]
  ELSE LET msg == h.msgs[h.k] IN
       IF msg.voice /\ h.pc = "next"
       THEN [u EXCEPT !.handlers[e].pc = "download"]
       ELSE LET v == [u EXCEPT !.forwarded = Append(@, msg.id)] IN
            IF useHybridProviders
            THEN U_run([v EXCEPT !.handlers[e].k = @ + 1,
                                 !.handlers[e].pc = "next"], e)
            ELSE [v EXCEPT !.handlers[e].pc = "post"]

\* The socket emits messages.upsert (type notify) with a batch of messages.
Upsert(e, batch) ==
  /\ exitCode = "none"
  /\ upsert.handlers[e].pc = "none"
  /\ Len(upsert.emitted) + Len(batch) <= MaxEvents * MaxBatch
  /\ LET base == Len(upsert.emitted)
         msgs == [j \in 1..Len(batch) |-> [id |-> base + j, voice |-> batch[j]]]
         u == [upsert EXCEPT !.emitted = @ \o [j \in 1..Len(batch) |-> base + j],
                             !.handlers[e] = [msgs |-> msgs, k |-> 1, pc |-> "next"]]
     IN upsert' = U_run(u, e)
  /\ UNCHANGED notUpsert

\* downloadMediaMessage settles; with OpenAI configured and the download
\* successful, transcribeAudio is awaited next.
DownloadDone(e, transcribe) ==
  /\ exitCode = "none"
  /\ upsert.handlers[e].pc = "download"
  /\ upsert' = IF transcribe
               THEN [upsert EXCEPT !.handlers[e].pc = "transcribe"]
               ELSE U_run([upsert EXCEPT !.handlers[e].pc = "ready"], e)
  /\ UNCHANGED notUpsert

\* transcribeAudio settles.
TranscribeDone(e) ==
  /\ exitCode = "none"
  /\ upsert.handlers[e].pc = "transcribe"
  /\ upsert' = U_run([upsert EXCEPT !.handlers[e].pc = "ready"], e)
  /\ UNCHANGED notUpsert

\* session-manager.js: `await forwardToWebhook(...)` of the handler settles.
ForwardAwaited(e) ==
  /\ exitCode = "none"
  /\ upsert.handlers[e].pc = "post"
  /\ upsert' = U_run([upsert EXCEPT !.handlers[e].k = @ + 1,
                                    !.handlers[e].pc = "next"], e)
  /\ UNCHANGED notUpsert

NextInbound ==
  \/ \E e \in EventIds, batch \in Batches : Upsert(e, batch)
  \/ \E e \in EventIds, transcribe \in BOOLEAN : DownloadDone(e, transcribe)
  \/ \E e \in EventIds : TranscribeDone(e)
  \/ \E e \in EventIds : ForwardAwaited(e)

SpecInbound == Init /\ [][NextInbound]_vars

\* C24: for one tenant and provider the webhook forward attempts start in
\* the order in which the provider emitted the messages.
C24_ForwardOrderIsEmitOrder ==
  \A i, j \in 1..Len(upsert.forwarded) :
    i < j => upsert.forwarded[i] < upsert.forwarded[j]

\* =========================================================================
\* pollPendingMessages / markMessageSent
\* =========================================================================

notTick == <<managerVars, backoffVars, sendVars, queueVars, processVars, upsert, notified,
            source, payload, decision, handles, outbox>>

\* response.data.messages: ids in the returned order, each with a
\* destination from which buildJid makes a JID or not.
PendingLists ==
  UNION {[1..n -> [id : 1..MaxMessages, jidOk : BOOLEAN]] : n \in 1..MaxMessages}

\* An ack that says `sent` whatever the send did.
ackForAlwaysSent(id, outcome) ==
  [id |-> id, status |-> "sent", whatsappMessageId |-> "wamid", errorMessage |-> Null]

\* markMessageSent([msg.id], 'sent', result.messageId) after a send that
\* returned, markMessageSent([msg.id], 'failed', null, message) in the
\* catch block.
ackFor(id, outcome) ==
  IF outcome = "ok"
  THEN [id |-> id, status |-> "sent", whatsappMessageId |-> "wamid",
        errorMessage |-> Null]
  ELSE [id |-> id, status |-> "failed", whatsappMessageId |-> Null,
        errorMessage |-> outcome]

\* The for loop from message k to its next await: the send, or in
\* session-manager.js the ack of a message without JID.
P_run(t) ==
  IF t.k > Len(t.msgs)
  THEN [t EXCEPT !.pc = "done"]
  ELSE LET msg == t.msgs[t.k] IN
       IF ~useHybridProviders /\ ~msg.jidOk
       THEN [t EXCEPT !.pc = "ack",
                      !.sends = Append(@, [id |-> msg.id, outcome |-> "JID invalide"]),
                      !.acks = Append(@, ackFor(msg.id, "JID invalide"))]
       ELSE [t EXCEPT !.pc = "send"]

\* The interval fires: pollPendingMessages up to `await axios.get`.
PollTick ==
  /\ exitCode = "none"
  /\ tick.pc \in {"none", "done"}
  /\ tick' = [NoTick EXCEPT !.pc = "get"]
  /\ UNCHANGED notTick

\* The GET fails, or returns no message: the tick ends.
GetEmpty ==
  /\ exitCode = "none"
  /\ tick.pc = "get"
  /\ tick' = [tick EXCEPT !.pc = "done"]
  /\ UNCHANGED notTick

\* The GET returns messages.
GetDone(msgs) ==
  /\ exitCode = "none"
  /\ tick.pc = "get"
  /\ \A i, j \in 1..Len(msgs) : msgs[i].id = msgs[j].id => i = j
  /\ tick' = P_run([tick EXCEPT !.msgs = msgs, !.k = 1])
  /\ UNCHANGED notTick

SendOutcomes == {"ok", "send error"}

\* sendMessage / socket.sendMessage settles: the ack is posted.  A message
\* without JID makes the hybrid sendMessage throw.
SendDone(outcome) ==
  LET msg == tick.msgs[tick.k] IN
  /\ exitCode = "none"
  /\ tick.pc = "send"
  /\ outcome = "ok" => msg.jidOk
  /\ tick' = [tick EXCEPT !.pc = "ack",
                          !.sends = Append(@, [id |-> msg.id, outcome |-> outcome]),
                          !.acks = Append(@, ackFor(msg.id, outcome))]
  /\ UNCHANGED notTick

\* markMessageSent settles (an error of the POST is logged inside it):
\* next message.
AckDone ==
  /\ exitCode = "none"
  /\ tick.pc = "ack"
  /\ tick' = P_run([tick EXCEPT !.k = @ + 1])
  /\ UNCHANGED notTick

NextAck ==
  \/ PollTick
  \/ GetEmpty
  \/ \E msgs \in PendingLists : GetDone(msgs)
  \/ \E outcome \in SendOutcomes : SendDone(outcome)
  \/ AckDone

SpecAck == Init /\ [][NextAck]_vars

Listeners == {"cb1", "cb2", "cb3"}

RECURSIVE invokeCallbacksNoCatch(_, _, _)
\* The loop without its try / catch: the first error ends it.
invokeCallbacksNoCatch(callbacks, raising, n) ==
  IF callbacks = <<>> THEN n
  ELSE LET c == Head(callbacks)
           m == [n EXCEPT !.invoked = Append(@, c)] IN
       IF c \in raising THEN [m EXCEPT !.logged = Append(@, c)]
       ELSE invokeCallbacksNoCatch(Tail(callbacks), raising, m)

RECURSIVE invokeCallbacks(_, _, _)
\* for (const callback of callbacks) { try { callback(data) } catch (e) {
\* console.error(...) } }: `raising` are the callbacks that throw.
invokeCallbacks(callbacks, raising, n) ==
  IF callbacks = <<>> THEN n
  ELSE LET c == Head(callbacks)
           m == [n EXCEPT !.invoked = Append(@, c)] IN
       invokeCallbacks(Tail(callbacks), raising,
                       IF c \in raising THEN [m EXCEPT !.logged = Append(@, c)]
                       ELSE m)

\* notifyStatusChange(salonId, data) of either manager.
NotifyStatusChange(t, raising) ==
  /\ exitCode = "none"
  /\ notified' = invokeCallbacks(statusCallbacks[t].list, raising,
                   [salonId |-> t, to |-> statusCallbacks[t].list,
                    invoked |-> <<>>, logged |-> <<>>, unsubscribed |-> {}])
  /\ UNCHANGED <<managerVars, backoffVars, sendVars, queueVars, processVars,
                 upsert, tick, source, payload, decision, handles, outbox>>

NextNotify ==
  \/ \E c \in Listeners, t \in Tenants : OnStatusChange(c, t)
  \/ \E t \in Tenants, raising \in SUBSET Listeners : NotifyStatusChange(t, raising)

SpecNotify == Init /\ [][NextNotify]_vars

\* C26: a notification invokes the tenant's callbacks in registration
\* order within the one call, and a callback that raises does not keep a
\* later-registered callback from being invoked.
C26_EveryCallbackInvokedInOrder ==
  /\ notified.invoked = notified.to
  /\ notified.salonId # Null =>
       \E k \in 0..Len(statusCallbacks[notified.salonId].list) :
          notified.to = SubSeq(statusCallbacks[notified.salonId].list, 1, k)

\* The first of three callbacks raised and the two registered after it
\* were invoked.
C26_Witness ==
  /\ Len(notified.to) = 3
  /\ notified.logged = <<notified.to[1]>>
  /\ Len(notified.invoked) = 3

\* =========================================================================
\* Inbound messages of the providers of a hybrid session
\* =========================================================================

MaxInbound == 2       \* inbound messages the providers hand over

\* handleIncomingMessage(salonId, msg), the onMessage callback that
\* createSession gives to every provider it creates: the message goes to
\* forwardToWebhook.
handleIncomingMessage(t, providerType) ==
  /\ source' = [provider |-> providerType,
                active |-> sess[sessions[t]].activeProvider,
                count |-> source.count + 1]
  /\ UNCHANGED <<managerVars, backoffVars, sendVars, queueVars, processVars,
                 upsert, tick, notified, payload, decision, handles, outbox>>

\* POST of the platform webhook for the tenant's phone number id:
\* handleCloudApiWebhook finds the session by its installed cloud_api
\* provider, processWebhook calls onMessage for each message.
CloudApiWebhook(t) ==
  /\ exitCode = "none"
  /\ source.count < MaxInbound
  /\ sessions[t] # 0
  /\ sess[sessions[t]].providers["cloud_api"] # 0
  /\ handleIncomingMessage(t, "cloud_api")

\* The socket of the session's Baileys provider emits messages.upsert:
\* handleIncomingMessages calls onMessage.
BaileysUpsert(t) ==
  /\ exitCode = "none"
  /\ source.count < MaxInbound
  /\ sessions[t] # 0
  /\ sess[sessions[t]].providers["baileys"] # 0
  /\ prov[sess[sessions[t]].providers["baileys"]].socket = "open"
  /\ handleIncomingMessage(t, "baileys")

NextSource ==
  \/ \E t \in Tenants : CloudApiWebhook(t)
  \/ \E t \in Tenants : BaileysUpsert(t)

SpecSource == InitSend /\ [][NextSource]_vars

\* C27: an inbound message is forwarded to the application webhook only
\* when it comes from the session's active provider.
C27_OnlyActiveProviderForwards ==
  source.provider # Null => source.provider = source.active

\* =========================================================================
\* Sender addresses: extractPhoneFromJid and the webhook payload
\* =========================================================================

minPhoneDigits == 8
maxPhoneDigits == 15

\* msg.key.remoteJid: nothing, or user@server where the user part is
\* `len` digits, digits with a device suffix (12345:6), or not a number.
EmptyJid == [user |-> "none", len |-> 0, server |-> "none"]

Jids ==
  {EmptyJid} \cup
  [user : {"digits", "digits:device", "text"},
   len : {1, minPhoneDigits - 1, minPhoneDigits, maxPhoneDigits, maxPhoneDigits + 1},
   server : {"s.whatsapp.net", "lid", "g.us", "broadcast"}]

\* extractPhoneFromJid of BaileysProvider and of session-manager.js (the
\* same text).  The phone is "+" and the digits, the lidId the user part.
extractPhoneFromJid(jid) ==
  IF jid = EmptyJid
  THEN [phone |-> Null, isLid |-> FALSE, lidId |-> Null]
  ELSE IF jid.server = "lid"
  THEN [phone |-> Null, isLid |-> TRUE, lidId |-> "user part"]
  ELSE IF jid.user = "digits" /\ jid.server = "s.whatsapp.net"
  THEN IF jid.len >= minPhoneDigits /\ jid.len <= maxPhoneDigits
       THEN [phone |-> "+digits", isLid |-> FALSE, lidId |-> Null]
       ELSE [phone |-> Null, isLid |-> TRUE, lidId |-> "user part"]
  ELSE [phone |-> Null, isLid |-> FALSE, lidId |-> Null]

\* forwardToWebhook: the address fields of the payload.
webhookPayload(provider, jid, message) ==
  [provider |-> provider,
   jid |-> jid,
   message |-> message,
   phone |-> message.resolvedPhone,
   isLid |-> message.isLid,
   lidId |-> message.lidId]

notPayload == <<managerVars, backoffVars, sendVars, queueVars, processVars,
                upsert, tick, notified, source, decision, handles, outbox>>

\* A Baileys socket delivers a message from remoteJid jid, in either
\* manager: normalized message, then webhook payload.
JidMessage(jid) ==
  /\ exitCode = "none"
  /\ LET extracted == extractPhoneFromJid(jid) IN
     payload' = webhookPayload("baileys", jid,
                  [resolvedPhone |-> extracted.phone, isLid |-> extracted.isLid,
                   lidId |-> extracted.lidId])
  /\ UNCHANGED notPayload

\* The platform webhook delivers a message: message.from is the wa_id, a
\* number without "+" (CloudApiProvider.normalizeIncomingMessage).
WaIdMessage(len) ==
  /\ exitCode = "none"
  /\ useHybridProviders
  /\ payload' = webhookPayload("cloud_api",
                  [user |-> "digits", len |-> len, server |-> "wa_id"],
                  [resolvedPhone |-> "+digits", isLid |-> FALSE, lidId |-> Null])
  /\ UNCHANGED notPayload

NextPayload ==
  \/ \E jid \in Jids : JidMessage(jid)
  \/ \E len \in minPhoneDigits..maxPhoneDigits : WaIdMessage(len)

SpecPayload == Init /\ [][NextPayload]_vars

\* C28: every normalized inbound message and the webhook payload built
\* from it have exactly one of phone and lidId non-null; when the phone is
\* null, isLid is true and lidId is non-null.
C28_ExactlyOneAddress ==
  payload.provider # Null =>
    /\ (payload.phone # Null) # (payload.lidId # Null)
    /\ (payload.message.resolvedPhone # Null) # (payload.message.lidId # Null)
    /\ payload.phone = Null => (payload.isLid /\ payload.lidId # Null)

\* =========================================================================
\* The 60 s bound of BaileysProvider.connect()
\* =========================================================================

\* The promise createSession awaits exists (connect() of the awaited
\* invocation is past its awaits) and is not settled.
AwaitedConnectPending(p) ==
  /\ prov[p].type = "baileys"
  /\ prov[p].waiter # 0
  /\ prov[p].connecting # "first"

\* C29: every connect() completes within the 60 s bound, also when the
\* connection closes first and the reconnect re-invokes connect(): when the
\* 60 s timer fires while a createSession still waits on the promise, the
\* timer rejects it (or the resolver of that promise is still installed and
\* settles it), so no createSession is left waiting forever.
C29_ConnectSettlesWithinBound ==
  [][\A p \in ProvIds :
       (B_ConnectTimeout(p) /\ AwaitedConnectPending(p)) =>
         \/ prov[p].status \notin {"connected", "qr_ready"}
         \/ prov[p].connectionResolver = "first"]_vars

\* C30: an uncaught error raised outside the shutdown path is logged and
\* neither initiates shutdown nor terminates the process: the step of the
\* handler that logs it leaves isShuttingDown false and the process running.
C30_UncaughtErrorKeepsServing ==
  [][(Len(errorLog') > Len(errorLog) /\ ~isShuttingDown) =>
       (~isShuttingDown' /\ exitCode' = "none")]_vars

\* =========================================================================
\* logged_out is terminal
\* =========================================================================

\* The tenant's session is logged out.
LoggedOut(t) == HasSession(t) /\ SessionOf(t).status = "logged_out"

\* C31: once a session is logged_out the state is terminal: the event
\* schedules no reconnect, no reconnect scheduled before fires for the
\* session, and the status leaves logged_out only by an explicit
\* createSession or disconnectSession.
C31_LoggedOutIsTerminal ==
  [][\A t \in Tenants :
       /\ (LoggedOut(t)' /\ ~LoggedOut(t) /\ lastOp' = "internal")
             => TimersOf(t)' \subseteq TimersOf(t)
       /\ (LoggedOut(t) /\ lastOp' = "internal") => LoggedOut(t)']_vars

\* =========================================================================
\* What cleanup leaves in the queue
\* =========================================================================

\* The entry is within both bounds at time t.
WithinBounds(m, t) ==
  /\ m.attempts < maxQueueAttempts
  /\ t - m.queuedAt < MESSAGE_TTL

\* Drain pass d ends with this step.
PassCompletes(d) ==
  /\ DrainSlept(d)
  /\ drainPass[d].k >= Len(drainPass[d].snapshot)

\* The content loadQueue() parses: [] for a file that does not parse.
Parsed(file) == IF file = CorruptFile THEN <<>> ELSE file

\* C32: after every completed drain pass and after the queue is loaded on
\* startup the queue has no entry with attempts >= 5 and no entry as old as
\* the TTL, and the entries within both bounds are retained in their order.
C32_CleanupLeavesBoundedQueue ==
  [][/\ (\E d \in DrainIds : PassCompletes(d)) =>
          messageQueue' = SelectSeq(messageQueue, LAMBDA m : WithinBounds(m, now))
     /\ (\E landed \in {"old", "new", "corrupt"} : Restart(landed)) =>
          messageQueue' = SelectSeq(Parsed(queueFile'),
                                    LAMBDA m : WithinBounds(m, now))]_vars

\* =========================================================================
\* Drain passes running at the same time
\* =========================================================================

\* The queue loadQueue() finds at a start: what an earlier run left in the
\* file, entries with distinct ids that cleanup would keep.
StartAttempts == {0, maxQueueAttempts - 1}

LoadedQueues ==
  {<<[messageId |-> "m1", queuedAt |-> 0, attempts |-> a]>> : a \in StartAttempts}
  \cup {<<[messageId |-> "m1", queuedAt |-> 0, attempts |-> a],
          [messageId |-> "m2", queuedAt |-> 0, attempts |-> b]>> :
          a \in StartAttempts, b \in StartAttempts}

\* The process started with that file; the session connects, and both
\* createSession and handleProviderStatusChange set a timer for
\* processQueue, so two passes can run at the same time.
InitPasses ==
  /\ InitWith(TRUE, DefaultPriority)
  /\ BackoffIdle
  /\ SendIdle
  /\ LaterIdle
  /\ messageQueue \in LoadedQueues
  /\ queueFile = messageQueue
  /\ saveInProgress = FALSE
  /\ pendingSave = FALSE
  /\ writing = <<>>
  /\ immediates = 0
  /\ forwards = [id \in MessageIds |-> 0]
  /\ drainPass = [d \in PassIds |-> NoPass]
  /\ now = 0
  /\ delivered = 0
  /\ restarts = 0

NextPasses ==
  \/ \E d \in PassIds : ProcessQueue(d)
  \/ \E d \in PassIds, outcome \in WebhookOutcomes : DrainPosted(d, outcome)
  \/ \E d \in PassIds : DrainSlept(d)
  \/ \E ok \in BOOLEAN : WriteDone(ok)
  \/ Immediate

SpecPasses == InitPasses /\ [][NextPasses]_vars

\* Pass d hands an entry to forwardToWebhook in this step.
ForwardsEntry(d) ==
  /\ drainPass'[d].pc = "post"
  /\ drainPass'[d] # drainPass[d]

\* C33: a delivery forwarded from the retry queue has attempts <= 4 at the
\* moment it is forwarded, also when several drain passes run at the same
\* time or two drains were scheduled for one connect.
C33_ForwardedAttemptsBelowMax ==
  [][\A d \in PassIds :
       ForwardsEntry(d) =>
         \A j \in EntriesOf(drainPass'[d].snapshot[drainPass'[d].k]) :
           messageQueue[j].attempts <= maxQueueAttempts - 1]_vars

\* =========================================================================
\* The fallback triggers
\* =========================================================================

notDecision == <<managerVars, backoffVars, sendVars, queueVars, processVars,
                 upsert, tick, notified, source, payload, handles, outbox>>

TriggerSets ==
  [onTimeout : BOOLEAN, onRateLimit : BOOLEAN, onTemplateError : BOOLEAN,
   onServerError : BOOLEAN]

\* A Cloud API send failed with `raw`; sendMessage asks shouldTriggerFallback
\* about the normalized error.
CloudError(raw, enabled, triggers) ==
  /\ exitCode = "none"
  /\ useHybridProviders
  /\ LET error == C_normalizeError(raw) IN
     decision' = [asked |-> TRUE, error |-> error, status |-> raw.status,
                  enabled |-> enabled, triggers |-> triggers,
                  result |-> triggersFallback(error, enabled, triggers)]
  /\ UNCHANGED notDecision

\* A Baileys send failed with `raw` (no HTTP response: status 0).
BaileysError(raw, enabled, triggers) ==
  /\ exitCode = "none"
  /\ useHybridProviders
  /\ LET error == B_normalizeError(raw) IN
     decision' = [asked |-> TRUE, error |-> error, status |-> 0,
                  enabled |-> enabled, triggers |-> triggers,
                  result |-> triggersFallback(error, enabled, triggers)]
  /\ UNCHANGED notDecision

NextFallback ==
  \/ \E raw \in CloudFailures, enabled \in BOOLEAN, triggers \in TriggerSets :
       CloudError(raw, enabled, triggers)
  \/ \E raw \in BaileysFailures \cup {NotConnected}, enabled \in BOOLEAN,
        triggers \in TriggerSets :
       BaileysError(raw, enabled, triggers)

SpecFallback == Init /\ [][NextFallback]_vars

\* The trigger classes the error of the decision belongs to whose flag is on.
EnabledClasses ==
  {c \in {"timeout", "rate_limit", "template_error", "server_error"} :
     CASE c = "timeout" -> decision.triggers.onTimeout /\ IsTimeout(decision.error)
       [] c = "rate_limit" -> decision.triggers.onRateLimit /\ decision.error.isRateLimit
       [] c = "template_error" ->
            decision.triggers.onTemplateError /\ decision.error.isTemplateError
       [] OTHER -> decision.triggers.onServerError /\ decision.status >= 500}

\* C34: an error triggers fallback only through a trigger class it belongs
\* to whose flag is on: a class whose flag is false triggers nothing, and an
\* error of none of the four classes never triggers fallback, whatever code
\* it carries.
C34_FallbackOnlyByEnabledClass ==
  (decision.asked /\ decision.result) => EnabledClasses # {}

\* =========================================================================
\* Persist, then load
\* =========================================================================

\* Every entry of the file is younger than the TTL at time t.
AllYounger(file, t) == \A j \in 1..Len(file) : t - file[j].queuedAt < MESSAGE_TTL

unsubscribe(callbacks, c) ==
  LET found == {j \in 1..Len(callbacks) : callbacks[j] = c} IN
  IF found = {} THEN callbacks
  ELSE SubSeq(callbacks, 1, Min(found) - 1)
         \o SubSeq(callbacks, Min(found) + 1, Len(callbacks))

\* What a callback does when it is invoked: it unsubscribes one callback
\* (itself or another), or none.
Unsubscribing == [Listeners -> Listeners \cup {"none"}]

RECURSIVE notifyLoop(_, _, _, _)
\* for (const callback of callbacks) over the array of the Map itself: the
\* iterator reads callbacks[i] of the array as it is at that moment.
notifyLoop(callbacks, i, does, n) ==
  IF i > Len(callbacks) THEN [n EXCEPT !.callbacks = callbacks]
  ELSE LET c == callbacks[i]
           m == [n EXCEPT !.invoked = Append(@, c)] IN
       IF does[c] = "none"
       THEN notifyLoop(callbacks, i + 1, does, m)
       ELSE notifyLoop(unsubscribe(callbacks, does[c]), i + 1, does,
                       [m EXCEPT !.unsubscribed = @ \cup {does[c]}])

\* notifyStatusChange(salonId, data) while callbacks unsubscribe.
NotifyUnsubscribing(t, does) ==
  LET r == notifyLoop(statusCallbacks[t].list, 1, does,
                      [invoked |-> <<>>, unsubscribed |-> {}, callbacks |-> <<>>])
  IN
  /\ exitCode = "none"
  /\ statusCallbacks[t].present
  /\ notified' = [salonId |-> t, to |-> statusCallbacks[t].list,
                  invoked |-> r.invoked, logged |-> <<>>,
                  unsubscribed |-> r.unsubscribed]
  /\ statusCallbacks' = [statusCallbacks EXCEPT ![t].list = r.callbacks]
  /\ UNCHANGED <<useHybridProviders, hybridVars, heapVars, disconnecting, pollVars,
                 timerVars, emitted, lastOp, drains, backoffVars, sendVars,
                 queueVars, processVars, upsert, tick, source, payload, decision, handles, outbox>>

NextUnsubscribe ==
  \/ \E c \in Listeners, t \in Tenants : OnStatusChange(c, t)
  \/ \E t \in Tenants, does \in Unsubscribing : NotifyUnsubscribing(t, does)

SpecUnsubscribe == Init /\ [][NextUnsubscribe]_vars

\* C36: when callbacks unsubscribe themselves or others during a
\* notification, every other callback that was subscribed when it began and
\* has not been unsubscribed is invoked exactly once for the event.
C36_OthersStillInvokedOnce ==
  \A c \in Range(notified.to) \ notified.unsubscribed :
    Cardinality({j \in 1..Len(notified.invoked) : notified.invoked[j] = c}) = 1

\* =========================================================================
\* One live provider instance per tenant and type
\* =========================================================================

\* The provider instances of type `type` made for tenant t whose socket is
\* up, so that their callbacks still reach the tenant's session.
LiveProviders(t, type) ==
  {p \in ProvIds : /\ prov[p].salonId = t
                   /\ prov[p].type = type
                   /\ prov[p].socket \in {"fresh", "open"}}

\* The sockets of the legacy manager made for tenant t that are up.
LiveSockets(t) ==
  {i \in SessionIds : sess[i].salonId = t /\ sock[i] \in {"fresh", "open"}}

\* C37: every tenant has at most one live provider instance per provider
\* type (in the legacy manager: one live socket) wired to its session,
\* also after createSession on a non-connected session, a reconnect that
\* re-runs createSession, or two overlapping createSession calls.
C37_OneLiveProviderPerType ==
  \A t \in Tenants :
    /\ \A type \in {"cloud_api", "baileys"} : Cardinality(LiveProviders(t, type)) <= 1
    /\ Cardinality(LiveSockets(t)) <= 1

\* =========================================================================
\* The unsubscribe functions of the WebSocket clients
\* =========================================================================

notHandles == <<useHybridProviders, hybridVars, heapVars, disconnecting, pollVars,
                timerVars, backoffVars, sendVars, queueVars, processVars,
                upsert, tick, notified, source, payload, decision, outbox>>

\* The unsubscribe function for (salonId, callback) is called:
\* statusCallbacks.get(salonId) is undefined once the tenant's array was
\* deleted, and callbacks.indexOf raises a TypeError.
callUnsubscribe(cbs, t, c) ==
  IF cbs[t].present
  THEN [raised |-> FALSE, cbs |-> [cbs EXCEPT ![t].list = unsubscribe(@, c)]]
  ELSE [raised |-> TRUE, cbs |-> cbs]

\* ws `subscribe` for tenant t by client c, which holds no unsubscribe
\* function yet: onStatusChange, and the function it returns is kept.
WsSubscribe(c, t) ==
  /\ exitCode = "none"
  /\ handles[c].salonId = Null
  /\ statusCallbacks' = [statusCallbacks EXCEPT ![t] =
       [present |-> TRUE, list |-> Append(statusCallbacks[t].list, c)]]
  /\ handles' = [handles EXCEPT ![c].salonId = t]
  /\ emitted' = <<>>
  /\ lastOp' = "onStatusChange"
  /\ drains' = 0
  /\ UNCHANGED notHandles

\* ws `close` or `error` of client c: if (unsubscribe) unsubscribe().  Both
\* events call the same function, so it can be called again.
WsClose(c) ==
  LET r == callUnsubscribe(statusCallbacks, handles[c].salonId, c) IN
  /\ exitCode = "none"
  /\ handles[c].salonId # Null
  /\ statusCallbacks' = r.cbs
  /\ handles' = [handles EXCEPT ![c].raised = r.raised]
  /\ emitted' = <<>>
  /\ lastOp' = "internal"
  /\ drains' = 0
  /\ UNCHANGED notHandles

NextHandles ==
  \/ \E t \in Tenants : L_CreateSession(t)
  \/ \E t \in Tenants : L_Disconnect(t)
  \/ \E c \in Listeners, t \in Tenants : WsSubscribe(c, t)
  \/ \E c \in Listeners : WsClose(c)

SpecHandles == Init /\ [][NextHandles]_vars

\* C38: the unsubscribe function can be called at any time without raising,
\* also after disconnectSession dropped the tenant's subscriber table, and
\* a call of it (the first or a later one) removes no other subscriber.
C38_UnsubscribeNeverRaises ==
  [][\A c \in Listeners :
       WsClose(c) =>
         /\ ~handles'[c].raised
         /\ \A t \in Tenants :
              Subscribers(statusCallbacks, t) \ {c}
                \subseteq Subscribers(statusCallbacks', t)]_vars

\* =========================================================================
\* Pending outbound messages across poller ticks
\* =========================================================================

notOutbox == <<managerVars, backoffVars, sendVars, queueVars, processVars,
               upsert, tick, notified, source, payload, decision, handles>>

\* response.data.messages: the pending messages in the order of their ids.
PendingSeq(S) ==
  CHOOSE q \in [1..Cardinality(S) -> S] : \A i, j \in 1..Cardinality(S) :
                                             i < j => q[i] < q[j]

\* The interval fires: pollPendingMessages up to `await axios.get`.  The
\* closure of session-manager.js skips the call while one is running; the
\* hybrid manager's interval does not.
O_PollTick(j) ==
  /\ exitCode = "none"
  /\ outbox.ticks[j].pc = "none"
  /\ ~useHybridProviders => \A i \in 1..MaxTicks : outbox.ticks[i].pc = "none"
  /\ outbox' = [outbox EXCEPT !.ticks[j].pc = "get"]
  /\ UNCHANGED notOutbox

\* The GET settles: it failed or lists nothing and the call ends, or the
\* loop reaches the send of the first message.
O_GetDone(j, ok) ==
  /\ exitCode = "none"
  /\ outbox.ticks[j].pc = "get"
  /\ outbox' = IF ok /\ outbox.pending # {}
               THEN [outbox EXCEPT !.ticks[j] =
                       [pc |-> "send", msgs |-> PendingSeq(outbox.pending),
                        k |-> 1, status |-> Null]]
               ELSE [outbox EXCEPT !.ticks[j] = NoOTick]
  /\ UNCHANGED notOutbox

\* sendMessage settles: the message went out (ok) or the send threw; up to
\* `await markMessageSent`.
O_SendDone(j, outcome) ==
  LET id == outbox.ticks[j].msgs[outbox.ticks[j].k] IN
  /\ exitCode = "none"
  /\ outbox.ticks[j].pc = "send"
  /\ outcome = "ok" => outbox.dispatched[id] < MaxSends
  /\ outbox' = [outbox EXCEPT
                  !.ticks[j].pc = "ack",
                  !.ticks[j].status = ackFor(id, outcome).status,
                  !.dispatched[id] = IF outcome = "ok" THEN @ + 1 ELSE @]
  /\ UNCHANGED notOutbox

\* markMessageSent settles: the POST landed and the backend no longer lists
\* the message, or it failed, which markMessageSent only logs.  Then the
\* next message, or the end of the call.
O_AckDone(j, landed) ==
  LET t  == outbox.ticks[j]
      id == t.msgs[t.k] IN
  /\ exitCode = "none"
  /\ t.pc = "ack"
  /\ outbox' = [outbox EXCEPT
                  !.pending = IF landed THEN @ \ {id} ELSE @,
                  !.ticks[j] = IF t.k < Len(t.msgs)
                               THEN [t EXCEPT !.pc = "send", !.k = @ + 1,
                                              !.status = Null]
                               ELSE NoOTick]
  /\ UNCHANGED notOutbox

NextOutbox ==
  \/ \E j \in 1..MaxTicks : O_PollTick(j)
  \/ \E j \in 1..MaxTicks, ok \in BOOLEAN : O_GetDone(j, ok)
  \/ \E j \in 1..MaxTicks, outcome \in SendOutcomes : O_SendDone(j, outcome)
  \/ \E j \in 1..MaxTicks, landed \in BOOLEAN : O_AckDone(j, landed)

SpecOutbox == Init /\ [][NextOutbox]_vars

\* C39: each pending outbound message is sent to the platform at most once
\* across the poller ticks of its tenant, also when the mark-sent
\* acknowledgement fails and when a tick starts before the previous one
\* has finished.
C39_DispatchedAtMostOnce ==
  \A id \in 1..MaxMessages : outbox.dispatched[id] <= 1

\* ------------------------------------------------ fallback disabled
\* The first provider of the order that is installed on the session.
FirstCandidate ==
  send.order[CHOOSE j \in Candidates : \A h \in Candidates : j <= h]

\* C40: with fallback.enabled false, a sendMessage call that has run its
\* provider loop on a session with a candidate provider has called a send
\* method exactly once, on the first candidate, and when that call failed
\* the caller receives that provider's error.
C40_DisabledFallbackSendsOnce ==
  (/\ ~fallback.enabled
   /\ send.pc \in {"returned", "thrown"}
   /\ send.sid # 0
   /\ send.result.error.message # "Templates require Cloud API provider"
   /\ Candidates # {})
  => /\ Len(send.log) = 1
     /\ send.log[1] = FirstCandidate
     /\ send.pc = "thrown" => send.result.error = send.errors[1]

====
